---- MODULE Spec2Model ----
(***************************************************************************)
(* A model of the metrics collection core of near-protocol-rewards:        *)
(* the paginated API clients, the rate limiter, the off-chain and on-chain *)
(* controllers and the batch handler of scripts/lambda/main.py.            *)
(*                                                                         *)
(* Each subsystem has its own specification (SpecPage, SpecOffchain, ...). *)
(* The variables of the subsystems a specification does not run keep the   *)
(* values its Init gives them.                                             *)
(***************************************************************************)
EXTENDS Integers, Sequences, FiniteSets, TLC

\* ------------------------------------------------------------------ bounds

\* per_page of the paginated clients (100 in the program), scaled down.
PerPage == 2
\* How many 429 answers the upstream gives during one paginated fetch.
MaxRetries == 2
\* The largest max_calls_per_minute a RateLimiter is constructed with.
MaxCallsPerMinute == 3
\* How many _make_request calls one client makes.
MaxCalls == 3
\* The clock stops advancing here.
MaxTime == 125
\* The longest repository list given to collectRepositoryData.
MaxRepos == 2

\* Most projects in the PROJECTS list of lambda_handler.
MaxProjects == 3

\* The most records one upstream resource holds in SpecPage: two full pages,
\* so that a third (empty) page is requested.
MaxRecords == 2 * PerPage

\* ------------------------------------------------------------------ state

VARIABLES
    records,    \* number of records the upstream holds for every resource
    page,       \* local `page` of the running paginated fetch
    all_data,   \* local accumulator of the running paginated fetch
    requests,   \* the requests the running fetch has sent: <<page, status>>
    client,     \* which paginated fetch SpecPage runs
    pg_pc       \* "loop" | "returned" | "raised"

pageVars == <<records, page, all_data, requests, client, pg_pc>>

VARIABLES
    max_calls_per_minute,   \* RateLimiter.max_calls_per_minute
    now,                    \* the clock time.time() reads, in seconds
    call_times,             \* RateLimiter.call_times
    recorded,               \* every timestamp record_request has appended
    rl_pc                   \* "idle" | "get": where _make_request stands

limiterVars == <<max_calls_per_minute, now, call_times, recorded, rl_pc>>

VARIABLES
    repository_names,       \* argument of collectRepositoryData
    repo_idx,               \* position of its `for repo_name in repository_names`
    off_pc,                 \* "repo" | "commits" | "pulls" | "review_pulls"
                            \* | "reviews" | "issues" | "done" | "raised"
    commit_metrics,         \* locals of _collectSingleRepositoryData
    pr_metrics,
    review_metrics,
    issue_metrics,
    pulls_data,             \* collectReviewData: number of pull requests listed
    pr_i,                   \* collectReviewData: position of `for pr in pulls_data`
    total_reviews,          \* collectReviewData.total_reviews
    repositories_metrics,   \* collectRepositoryData.repositories_metrics
    successful_collections, \* collectRepositoryData.successful_collections
    combined_metrics,       \* what collectRepositoryData returned, or NoResult
    last_request,           \* the latest request: its kind, the answer, and
                            \* whether the records fetched make processing raise
    repo_requests           \* the requests sent for this repository, in order

offVars == <<repository_names, repo_idx, off_pc, commit_metrics, pr_metrics,
             review_metrics, issue_metrics, pulls_data, pr_i, total_reviews,
             repositories_metrics, successful_collections, combined_metrics,
             last_request, repo_requests>>

VARIABLES
    on_entry,       \* "collectAccountData" | "collectAccountDataByDateRange"
    account_id,     \* its argument
    txn_records,    \* number of transactions the indexer holds for the account
    rcpt_records,   \* number of receipts the indexer holds for the account
    on_pc,          \* "exists" | "transactions" | "receipts" | "returned" | "raised"
    on_page,        \* local `page` of the running NearBlocks fetch
    all_transactions,   \* fetchTransactionData.all_transactions, then
                        \* _collectAccountMetrics.transactions
    all_receipts,   \* fetchReceiptData.all_receipts
    on_result,      \* the OnchainMetrics returned, or NoMetrics
    on_last         \* the latest request of the call: its kind and its answer

onVars == <<on_entry, account_id, txn_records, rcpt_records, on_pc, on_page,
            all_transactions, all_receipts, on_result, on_last>>

VARIABLES
    PROJECTS,       \* lambda_handler.PROJECTS
    index,          \* position of `for index, project in enumerate(PROJECTS, 1)`
    results,        \* lambda_handler.results
    outcomes,       \* how the processing of each project begun so far ended
    lm_pc,          \* "load" | "loop" | "save" | "returned" | "exited"
                    \* | "key_error" | "save_failed"
    returned        \* what lambda_handler returned, or NoResponse

lambdaVars == <<PROJECTS, index, results, outcomes, lm_pc, returned>>

VARIABLES
    onchain_metrics,    \* arguments of calculateTotalRewards
    offchain_metrics,
    rewards,            \* what calculateTotalRewards returned, or NoRewards
    sc_pc               \* "call" | "returned"

scoreVars == <<onchain_metrics, offchain_metrics, rewards, sc_pc>>

VARIABLES
    score,              \* argument of determineLevel and calculateMonetaryReward,
                        \* in hundredths of a point
    level,              \* name of the level determineLevel returned, or "none"
    monetary_reward     \* what calculateMonetaryReward returned, or -1

tierVars == <<score, level, monetary_reward>>

VARIABLES
    metrics_list,   \* argument of combineRepositoryMetrics
    cb_i,           \* how many elements of metrics_list the loop has consumed
    cb_acc,         \* the accumulators of combineRepositoryMetrics (its locals)
    combined,       \* what combineRepositoryMetrics returned, or NotCombined
    cb_pc           \* "call" | "loop" | "returned"

combinerVars == <<metrics_list, cb_i, cb_acc, combined, cb_pc>>

VARIABLES
    redis,          \* whether EventQueue was built with a redis_url
    queue,          \* the Redis list <queue_name>, leftmost first; in memory self.queue
    processing,     \* the Redis list <queue_name>:processing; in memory self.processing
    status,         \* the "status" field of each event hash, "absent" if there is none
    enqueued,       \* ids in the order enqueue_event was called with them
    delivered,      \* ids in the order dequeue_event returned them
    completions,    \* ids complete_event was called with
    last_call       \* the last call made on the queue and what it returned

queueVars == <<redis, queue, processing, status, enqueued, delivered,
               completions, last_call>>

VARIABLES
    event,          \* argument of process_event
    answers,        \* what each collaborator of process_event does when called
    calls,          \* the calls process_event has made, in order
    pe_pc,          \* where process_event is
    pe_result       \* "running" | "returned" | "raised"

processorVars == <<event, answers, calls, pe_pc, pe_result>>

VARIABLES
    collector,      \* which collector runs: "pulls" | "issues" | "reviews"
    date_range,     \* the DateRange the collector was called with
    raw_data,       \* pulls_data / issues_data: the records the fetch returned
    dc_i,           \* how many records of raw_data the loop has consumed
    tally,          \* the counts and login sets of the loop (its locals)
    last_fetch,     \* how the last per-pull-request review fetch ended
    dc_pc           \* "loop" | "returned"

dateVars == <<collector, date_range, raw_data, dc_i, tally, last_fetch, dc_pc>>

VARIABLES
    vd_data,        \* argument `data` of the validator's functions:
                    \* transactions + receipts
    vd_account,     \* their argument account_id, the account being analyzed
    volume_metrics, \* what _calculateTransactionVolume returned, or NotComputed
    totalVolume,    \* what the legacy calculateTotalVolume did, or NotComputed
    wallet_metrics  \* what _calculateUniqueWalletMetrics did, or NotComputed

validatorVars == <<vd_data, vd_account, volume_metrics, totalVolume, wallet_metrics>>

VARIABLES
    REDIS_ENABLED,   \* settings.REDIS_ENABLED
    redis_lists,     \* the Redis lists and event hashes every EventQueue shares
    processor_queue, \* the in-memory lists of EventProcessor.queue
    webhook_queues,  \* the EventQueue objects github_webhook built, in order
    loop_pc,         \* where _process_loop is: "dequeue" | "process" | "sleep"
    loop_event       \* the id dequeue_event handed to the loop, or NoEvent

appVars == <<REDIS_ENABLED, redis_lists, processor_queue, webhook_queues,
             loop_pc, loop_event>>

laterVars == <<dateVars, validatorVars, appVars>>

collectVars == <<pageVars, limiterVars, offVars, onVars, lambdaVars>>

rewardVars == <<scoreVars, tierVars>>

eventVars == <<queueVars, processorVars>>

vars == <<collectVars, rewardVars, combinerVars, eventVars, laterVars>>

\* What the actions of one subsystem leave alone.
notPageVars == <<limiterVars, offVars, onVars, lambdaVars, rewardVars, combinerVars, eventVars, laterVars>>
notLimiterVars == <<pageVars, offVars, onVars, lambdaVars, rewardVars, combinerVars, eventVars, laterVars>>
notOffchainVars == <<requests, client, pg_pc, limiterVars, onVars, lambdaVars, rewardVars, combinerVars, eventVars, laterVars>>
notOnchainVars == <<pageVars, limiterVars, offVars, lambdaVars, rewardVars, combinerVars, eventVars, laterVars>>
notLambdaVars == <<pageVars, limiterVars, offVars, onVars, rewardVars, combinerVars, eventVars, laterVars>>
notScoreVars == <<collectVars, tierVars, combinerVars, eventVars, laterVars>>
notTierVars == <<collectVars, scoreVars, combinerVars, eventVars, laterVars>>
notCombinerVars == <<collectVars, rewardVars, eventVars, laterVars>>
notQueueVars == <<collectVars, rewardVars, combinerVars, processorVars, laterVars>>
notProcessorVars == <<collectVars, rewardVars, combinerVars, queueVars, laterVars>>
earlierVars == <<collectVars, rewardVars, combinerVars, eventVars>>
notDateVars == <<earlierVars, validatorVars, appVars>>
notValidatorVars == <<earlierVars, dateVars, appVars>>
notAppVars == <<earlierVars, dateVars, validatorVars>>

\* ------------------------------------------------------------------ HTTP

\* requests.get raised requests.RequestException: there is no status code.
RequestException == 0

Statuses == {RequestException, 200, 403, 404, 429, 500}

\* An upstream answer: the status and, for a 403, whether the body holds
\* the phrase "API rate limit exceeded".
Responses ==
    {[status |-> s, rate_phrase |-> r] : s \in Statuses, r \in BOOLEAN} \
        {[status |-> s, rate_phrase |-> TRUE] : s \in Statuses \ {403}}

Min(a, b) == IF a < b THEN a ELSE b

\* The items the upstream serves for page p of a resource of n records:
\* records (p-1)*per_page+1 .. min(p*per_page, n), identified by their index.
PageItems(n, p, per_page) ==
    LET first == (p - 1) * per_page + 1
        last  == Min(p * per_page, n)
    IN  IF last < first THEN <<>>
        ELSE [i \in 1..(last - first + 1) |-> first + i - 1]

\* Results of a call: raised an exception, returned None, returned data.
Raise(msg) == [kind |-> "raise", msg |-> msg, data |-> <<>>]
None == [kind |-> "none", msg |-> "", data |-> <<>>]
Data(d) == [kind |-> "data", msg |-> "", data |-> d]

\* makeRequest raising for every status other than 200 and 404 (mutant).
makeRequest_RaiseOnError(resp, body) ==
    IF resp.status = RequestException THEN None
    ELSE IF resp.status = 404 THEN None
    ELSE IF resp.status # 200 THEN Raise("Request failed")
    ELSE Data(body)

\* GitHubApiClient.makeRequest: the answer to one GET whose 200 body is `body`.
makeRequest(resp, body) ==
    IF resp.status = RequestException THEN None
    ELSE IF resp.status = 404 THEN None
    ELSE IF resp.status = 403
         THEN IF resp.rate_phrase
              THEN Raise("GitHub API rate limit exceeded")
              ELSE Raise("Authentication failed")
    ELSE IF resp.status # 200 THEN None
    ELSE Data(body)

\* makePaginatedRequest without `page += 1` (mutant).
makePaginatedRequest_NoIncrement(pg, acc, resp, body, per_page) ==
    IF resp.status # 200
    THEN [ctl |-> "break", page |-> pg, all_data |-> acc, msg |-> ""]
    ELSE IF Len(body) < per_page
    THEN [ctl |-> "break", page |-> pg, all_data |-> acc \o body, msg |-> ""]
    ELSE [ctl |-> "loop", page |-> pg, all_data |-> acc \o body, msg |-> ""]

\* One iteration of the loop of GitHubApiClient.makePaginatedRequest.
\* ctl: "loop" (next iteration), "break" (the call returns all_data),
\* "raise" (the exception of makeRequest leaves the call).
makePaginatedRequest(pg, acc, resp, body, per_page) ==
    LET data == makeRequest(resp, body)
    IN  IF data.kind = "raise"
        THEN [ctl |-> "raise", page |-> pg, all_data |-> acc, msg |-> data.msg]
        ELSE IF data.kind = "none"
        THEN [ctl |-> "break", page |-> pg, all_data |-> acc, msg |-> ""]
        ELSE IF data.data = <<>>
        THEN [ctl |-> "break", page |-> pg, all_data |-> acc, msg |-> ""]
        ELSE IF Len(data.data) < per_page
        THEN [ctl |-> "break", page |-> pg, all_data |-> acc \o data.data, msg |-> ""]
        ELSE [ctl |-> "loop", page |-> pg + 1, all_data |-> acc \o data.data, msg |-> ""]

\* fetchTransactionData moving to the next page after a 429 (mutant).
fetchTransactionData_SkipOn429(pg, acc, resp, txns, limit) ==
    IF resp.status = 429
    THEN [ctl |-> "loop", page |-> pg + 1, all_data |-> acc, msg |-> ""]
    ELSE IF resp.status # 200
    THEN [ctl |-> "raise", page |-> pg, all_data |-> acc, msg |-> "API Error"]
    ELSE IF Len(txns) < limit
    THEN [ctl |-> "break", page |-> pg, all_data |-> acc \o txns, msg |-> ""]
    ELSE [ctl |-> "loop", page |-> pg + 1, all_data |-> acc \o txns, msg |-> ""]

\* One iteration of the loop of NearBlocksApiClient.fetchTransactionData.
fetchTransactionData(pg, acc, resp, txns, limit) ==
    IF resp.status = RequestException
    THEN [ctl |-> "raise", page |-> pg, all_data |-> acc, msg |-> "Network error"]
    ELSE IF resp.status = 404
    THEN [ctl |-> "break", page |-> pg, all_data |-> acc, msg |-> ""]
    ELSE IF resp.status = 429
    THEN [ctl |-> "loop", page |-> pg, all_data |-> acc, msg |-> ""]
    ELSE IF resp.status = 403
    THEN [ctl |-> "raise", page |-> pg, all_data |-> acc, msg |-> "API access forbidden"]
    ELSE IF resp.status # 200
    THEN [ctl |-> "raise", page |-> pg, all_data |-> acc, msg |-> "API Error"]
    ELSE IF txns = <<>>
    THEN [ctl |-> "break", page |-> pg, all_data |-> acc, msg |-> ""]
    ELSE IF Len(txns) < limit
    THEN [ctl |-> "break", page |-> pg, all_data |-> acc \o txns, msg |-> ""]
    ELSE [ctl |-> "loop", page |-> pg + 1, all_data |-> acc \o txns, msg |-> ""]

\* One iteration of the loop of NearBlocksApiClient.fetchReceiptData.
fetchReceiptData(pg, acc, resp, receipts, limit) ==
    IF resp.status = RequestException
    THEN [ctl |-> "raise", page |-> pg, all_data |-> acc, msg |-> "Network error"]
    ELSE IF resp.status = 404
    THEN [ctl |-> "break", page |-> pg, all_data |-> acc, msg |-> ""]
    ELSE IF resp.status = 429
    THEN [ctl |-> "loop", page |-> pg, all_data |-> acc, msg |-> ""]
    ELSE IF resp.status = 403
    THEN [ctl |-> "raise", page |-> pg, all_data |-> acc, msg |-> "API access forbidden"]
    ELSE IF resp.status # 200
    THEN [ctl |-> "raise", page |-> pg, all_data |-> acc, msg |-> "API Error"]
    ELSE IF receipts = <<>>
    THEN [ctl |-> "break", page |-> pg, all_data |-> acc, msg |-> ""]
    ELSE IF Len(receipts) < limit
    THEN [ctl |-> "break", page |-> pg, all_data |-> acc \o receipts, msg |-> ""]
    ELSE [ctl |-> "loop", page |-> pg + 1, all_data |-> acc \o receipts, msg |-> ""]

\* ------------------------------------------------------------------ SpecPage
\* One paginated fetch against an upstream of `records` records.

Clients == {"makePaginatedRequest", "fetchTransactionData", "fetchReceiptData"}

Retries(log) == Cardinality({i \in 1..Len(log) : log[i].status = 429})

PageInit ==
    /\ records \in 0..MaxRecords
    /\ page = 1
    /\ all_data = <<>>
    /\ requests = <<>>
    /\ client \in Clients
    /\ pg_pc = "loop"

\* No paginated fetch of SpecPage runs.
PageIdle ==
    /\ records = 0
    /\ page = 1
    /\ all_data = <<>>
    /\ requests = <<>>
    /\ client = "none"
    /\ pg_pc = "idle"

\* No request yet.
NoRequest == [kind |-> "none", status |-> -1, rate_phrase |-> FALSE, bad |-> FALSE]

\* collectRepositoryData has returned nothing.
NoResult == [repositories_count |-> -1]

\* collectRepositoryData does not run.
OffchainIdle ==
    /\ repository_names = <<>>
    /\ repo_idx = 1
    /\ off_pc = "off"
    /\ commit_metrics = [count |-> 0]
    /\ pr_metrics = [open |-> 0, merged |-> 0, closed |-> 0]
    /\ review_metrics = [count |-> 0]
    /\ issue_metrics = [open |-> 0, closed |-> 0]
    /\ pulls_data = 0
    /\ pr_i = 1
    /\ total_reviews = 0
    /\ repositories_metrics = <<>>
    /\ successful_collections = 0
    /\ combined_metrics = NoResult
    /\ last_request = NoRequest
    /\ repo_requests = <<>>

\* Neither collectAccountData nor collectAccountDataByDateRange has returned.
NoMetrics == [account_id |-> "", transaction_count |-> -1]

\* No account collection runs.
OnchainIdle ==
    /\ on_entry = "none"
    /\ account_id = ""
    /\ txn_records = 0
    /\ rcpt_records = 0
    /\ on_pc = "off"
    /\ on_page = 1
    /\ all_transactions = <<>>
    /\ all_receipts = <<>>
    /\ on_result = NoMetrics
    /\ on_last = [kind |-> "none", status |-> -1]

\* lambda_handler has returned nothing.
NoResponse == [statusCode |-> -1]

\* lambda_handler does not run.
LambdaIdle ==
    /\ PROJECTS = <<>>
    /\ index = 1
    /\ results = <<>>
    /\ outcomes = <<>>
    /\ lm_pc = "off"
    /\ returned = NoResponse

\* calculateTotalRewards has returned nothing.
NoRewards == [total |-> -1]

\* calculateTotalRewards is not called.
ScoreIdle ==
    /\ onchain_metrics = [absent |-> "None"]
    /\ offchain_metrics = [absent |-> "None"]
    /\ rewards = NoRewards
    /\ sc_pc = "off"

\* Neither determineLevel nor calculateMonetaryReward is called.
TierIdle ==
    /\ score = 0
    /\ level = "off"
    /\ monetary_reward = -1

\* combineRepositoryMetrics has returned nothing.
NotCombined == [repositories_count |-> -1]

\* combineRepositoryMetrics is not called.
CombinerIdle ==
    /\ metrics_list = <<>>
    /\ cb_i = 0
    /\ cb_acc = [absent |-> "None"]
    /\ combined = NotCombined
    /\ cb_pc = "off"

\* No EventQueue exists.
QueueIdle ==
    /\ redis = FALSE
    /\ queue = <<>>
    /\ processing = <<>>
    /\ status = <<>>
    /\ enqueued = <<>>
    /\ delivered = <<>>
    /\ completions = {}
    /\ last_call = [op |-> "off"]

\* process_event is not called.
ProcessorIdle ==
    /\ event = [absent |-> "None"]
    /\ answers = [absent |-> "None"]
    /\ calls = <<>>
    /\ pe_pc = "off"
    /\ pe_result = "off"

EventsIdle == QueueIdle /\ ProcessorIdle

RewardsIdle == ScoreIdle /\ TierIdle

\* No collector loop over fetched records runs.
DatesIdle ==
    /\ collector = "off"
    /\ date_range = [start_date |-> 0, end_date |-> 0]
    /\ raw_data = <<>>
    /\ dc_i = 0
    /\ tally = [absent |-> "None"]
    /\ last_fetch = [absent |-> "None"]
    /\ dc_pc = "off"

\* The validator's functions have not been called.
ValidatorIdle ==
    /\ vd_data = <<>>
    /\ vd_account = <<>>
    /\ volume_metrics = [computed |-> "off"]
    /\ totalVolume = [computed |-> "off"]
    /\ wallet_metrics = [computed |-> "off"]

\* The application (webhook route and processor loop) is not running.
AppIdle ==
    /\ REDIS_ENABLED = FALSE
    /\ redis_lists = [off |-> TRUE]
    /\ processor_queue = [off |-> TRUE]
    /\ webhook_queues = <<>>
    /\ loop_pc = "off"
    /\ loop_event = <<>>

AfterDatesIdle == ValidatorIdle /\ AppIdle

LaterIdle == DatesIdle /\ ValidatorIdle /\ AppIdle

\* Neither the rewards calculator, the combiner, the event pipeline nor any
\* of the components modelled further below runs.
DownstreamIdle == RewardsIdle /\ CombinerIdle /\ EventsIdle /\ LaterIdle

\* No rate-limited client runs.
LimiterIdle ==
    /\ max_calls_per_minute = 0
    /\ now = 0
    /\ call_times = <<>>
    /\ recorded = <<>>
    /\ rl_pc = "off"

\* The state the fetch is in after an iteration that ended with r.
PageAfter(r, resp) ==
    /\ requests' = Append(requests, [page |-> page, status |-> resp.status])
    /\ page' = r.page
    /\ all_data' = r.all_data
    /\ pg_pc' = CASE r.ctl = "loop" -> "loop"
                  [] r.ctl = "break" -> "returned"
                  [] OTHER -> "raised"
    /\ UNCHANGED <<records, client, notPageVars>>

MakePaginatedRequestPage ==
    /\ client = "makePaginatedRequest"
    /\ pg_pc = "loop"
    /\ \E resp \in Responses :
        PageAfter(makePaginatedRequest(page, all_data, resp,
                      PageItems(records, page, PerPage), PerPage), resp)

FetchTransactionDataPage ==
    /\ client = "fetchTransactionData"
    /\ pg_pc = "loop"
    /\ \E resp \in Responses :
        /\ resp.status = 429 => Retries(requests) < MaxRetries
        /\ PageAfter(fetchTransactionData(page, all_data, resp,
                         PageItems(records, page, PerPage), PerPage), resp)

FetchReceiptDataPage ==
    /\ client = "fetchReceiptData"
    /\ pg_pc = "loop"
    /\ \E resp \in Responses :
        /\ resp.status = 429 => Retries(requests) < MaxRetries
        /\ PageAfter(fetchReceiptData(page, all_data, resp,
                         PageItems(records, page, PerPage), PerPage), resp)

PageNext ==
    \/ MakePaginatedRequestPage
    \/ FetchTransactionDataPage
    \/ FetchReceiptDataPage

InitPage ==
    PageInit /\ LimiterIdle /\ OffchainIdle /\ OnchainIdle /\ LambdaIdle /\ DownstreamIdle

SpecPage == InitPage /\ [][PageNext]_vars

\* The records of pages 1..k of the upstream, in page order.
PagesUpTo(k) == [i \in 1..Min(k * PerPage, records) |-> i]

NearBlocksFetches == {"fetchTransactionData", "fetchReceiptData"}

AllAnswered200 == \A i \in 1..Len(requests) : requests[i].status = 200

Only200Or429 == \A i \in 1..Len(requests) : requests[i].status \in {200, 429}

LastRequest == requests[Len(requests)]

\* C5: when every answer is 200, each of the three paginated fetches asks for
\* the pages 1, 2, 3, ... in order, none skipped or repeated; it goes on
\* exactly while the pages are full, returns at the first page that holds
\* fewer than per_page (possibly zero) items, and returns the items of the
\* requested pages concatenated in page order.
C5_PagesInOrderAndConcatenated ==
    AllAnswered200 =>
        /\ pg_pc # "raised"
        /\ \A i \in 1..Len(requests) : requests[i].page = i
        /\ \A i \in 1..(Len(requests) - 1) :
              Len(PageItems(records, i, PerPage)) = PerPage
        /\ all_data = PagesUpTo(Len(requests))
        /\ pg_pc = "loop" =>
              /\ page = Len(requests) + 1
              /\ Len(requests) > 0 =>
                    Len(PageItems(records, Len(requests), PerPage)) = PerPage
        /\ pg_pc = "returned" =>
              Len(PageItems(records, Len(requests), PerPage)) < PerPage

\* A fetch of three pages, all answered 200, that returned at a short,
\* non-empty last page.
C5_Witness ==
    /\ pg_pc = "returned"
    /\ AllAnswered200
    /\ Len(requests) >= 2
    /\ Len(all_data) % PerPage # 0

AnsweredOtherStatus == Len(requests) > 0 /\ LastRequest.status = 500

\* C7 as claimed: in every paginated fetch a page answered with a status
\* other than 200, 403, 404 and 429 ends the fetch without raising and the
\* items of the pages before it are returned.
C7_OtherStatusReturnsPartial ==
    AnsweredOtherStatus =>
        /\ pg_pc = "returned"
        /\ all_data = PagesUpTo(LastRequest.page - 1)

\* C7 amended: makePaginatedRequest returns the items of the pages before
\* the failing one without raising; fetchTransactionData and
\* fetchReceiptData raise an exception instead and return no list.
C7_OtherStatusPartialOrRaise ==
    AnsweredOtherStatus =>
        IF client = "makePaginatedRequest"
        THEN pg_pc = "returned" /\ all_data = PagesUpTo(LastRequest.page - 1)
        ELSE pg_pc = "raised"

\* makePaginatedRequest returned one full page after page 2 answered 500.
C7_Witness ==
    /\ client = "makePaginatedRequest"
    /\ AnsweredOtherStatus
    /\ LastRequest.page = 2
    /\ pg_pc = "returned"
    /\ Len(all_data) = PerPage

\* ------------------------------------------------------------ SpecLimiter
\* One NearBlocksApiClient making _make_request calls while time advances.

\* The length of the sliding window, in seconds.
Window == 60
\* The "+1 second buffer" of wait_if_needed.
WaitBuffer == 1

\* RateLimiter.__init__: int(max_calls_per_minute * 0.9).
safe_max_calls(m) == (m * 9) \div 10

\* `while self.call_times and now - self.call_times[0] > 60: popleft()`.
RECURSIVE PurgeOld(_, _)
PurgeOld(q, t) ==
    IF q # <<>> /\ t - Head(q) > Window THEN PurgeOld(Tail(q), t) ELSE q

\* RateLimiter.can_make_request at time t: the purged deque and the answer.
can_make_request(q, t, m) ==
    LET purged == PurgeOld(q, t)
    IN  [call_times |-> purged, result |-> Len(purged) < safe_max_calls(m)]

\* RateLimiter.wait_if_needed entered at time t. `lag` is the time that
\* passes between can_make_request and the time.time() of the wait
\* computation, `over` the time time.sleep sleeps beyond wait_time.
\* Gives the deque and the clock when the call returns.
wait_if_needed(q, t, m, lag, over) ==
    LET can == can_make_request(q, t, m)
    IN  IF can.result \/ can.call_times = <<>>
        THEN [call_times |-> can.call_times, now |-> t]
        ELSE LET t1 == t + lag
                 wait_time == Window - (t1 - Head(can.call_times)) + WaitBuffer
             IN  IF wait_time > 0
                 THEN [call_times |-> PurgeOld(can.call_times, t1 + wait_time + over),
                       now |-> t1 + wait_time + over]
                 ELSE [call_times |-> can.call_times, now |-> t1]

\* The steps by which the clock advances between and during calls.
TickSteps == {5, 30}
\* The delays inside wait_if_needed: none, or long enough to outlast the window.
Lags == {0, Window + 2}
Oversleeps == {0, 1}

LimiterInit ==
    /\ max_calls_per_minute \in 1..MaxCallsPerMinute
    /\ now = 0
    /\ call_times = <<>>
    /\ recorded = <<>>
    /\ rl_pc = "idle"

\* Time passes: between two calls, or while the HTTP GET is under way.
Tick ==
    /\ rl_pc \in {"idle", "get"}
    /\ \E d \in TickSteps :
        /\ now + d <= MaxTime
        /\ now' = now + d
    /\ UNCHANGED <<max_calls_per_minute, call_times, recorded, rl_pc, notLimiterVars>>

\* _make_request up to the GET: self.rate_limiter.wait_if_needed().
WaitIfNeeded ==
    /\ rl_pc = "idle"
    /\ Len(recorded) < MaxCalls
    /\ \E lag \in Lags, over \in Oversleeps :
        LET w == wait_if_needed(call_times, now, max_calls_per_minute, lag, over)
        IN  /\ w.now <= MaxTime
            /\ call_times' = w.call_times
            /\ now' = w.now
    /\ rl_pc' = "get"
    /\ UNCHANGED <<max_calls_per_minute, recorded, notLimiterVars>>

\* _make_request after the GET: self.rate_limiter.record_request().
RecordRequest ==
    /\ rl_pc = "get"
    /\ call_times' = Append(call_times, now)
    /\ recorded' = Append(recorded, now)
    /\ rl_pc' = "idle"
    /\ UNCHANGED <<max_calls_per_minute, now, notLimiterVars>>

LimiterNext == Tick \/ WaitIfNeeded \/ RecordRequest

InitLimiter ==
    LimiterInit /\ PageIdle /\ OffchainIdle /\ OnchainIdle /\ LambdaIdle /\ DownstreamIdle

SpecLimiter == InitLimiter /\ [][LimiterNext]_vars

\* The recorded requests whose timestamps lie in the 60 seconds ending at t.
InWindow(t) ==
    {i \in 1..Len(recorded) : recorded[i] <= t /\ t - recorded[i] <= Window}

\* C4: whatever the call sequence and however time advances, no trailing
\* 60-second window holds more recorded requests than safe_max_calls,
\* for every max_calls_per_minute >= 1.
C4_WindowWithinSafeMax ==
    \A i \in 1..Len(recorded) :
        Cardinality(InWindow(recorded[i])) <= safe_max_calls(max_calls_per_minute)

\* The same for the limiters whose safe_max_calls is at least 1.
WindowWithinSafeMaxFrom2 ==
    max_calls_per_minute >= 2 => C4_WindowWithinSafeMax

\* C20: at the moment wait_if_needed returns, can_make_request() is true,
\* whatever the call window held and for every max_calls_per_minute >= 1.
C20_CanMakeRequestAfterWait ==
    [][(rl_pc = "idle" /\ rl_pc' = "get") =>
          can_make_request(call_times', now', max_calls_per_minute).result]_vars

\* The same for the limiters whose safe_max_calls is at least 1.
CanMakeRequestAfterWaitFrom2 ==
    [][(rl_pc = "idle" /\ rl_pc' = "get" /\ max_calls_per_minute >= 2) =>
          can_make_request(call_times', now', max_calls_per_minute).result]_vars

\* ----------------------------------------------------------- SpecOffchain
\* OffchainController.collectRepositoryData over a list of repositories.
\* Every resource of every repository (commits, pull requests, the reviews
\* of each pull request, issues) holds `records` records, all of them
\* inside the date range, the pull requests and issues open.

\* The well-formed name of the repository at each position of the list; a
\* position may instead hold a name without "/".
RepositoryAt == <<"near/a", "near/b", "near/c", "near/d">>

\* RepositoryInfo.from_full_name: `owner, name = full_name.split("/", 1)`
\* raises ValueError for a name without "/".
from_full_name(full_name) ==
    IF full_name = "noslash" THEN Raise("ValueError") ELSE Data(full_name)

ZeroCommitMetrics == [count |-> 0]
ZeroPullRequestMetrics == [open |-> 0, merged |-> 0, closed |-> 0]
ZeroReviewMetrics == [count |-> 0]
ZeroIssueMetrics == [open |-> 0, closed |-> 0]

\* OffchainController._createEmptyRepositoryMetrics.
createEmptyRepositoryMetrics(repository_name) ==
    [repository_name |-> repository_name,
     commits |-> ZeroCommitMetrics,
     pull_requests |-> ZeroPullRequestMetrics,
     reviews |-> ZeroReviewMetrics,
     issues |-> ZeroIssueMetrics]

\* What a collector hands to the controller: a metrics record.
Value(v) == [kind |-> "value", value |-> v, msg |-> ""]
\* An exception that leaves a collector (the collectors of the code never
\* let one out).
Propagate(msg) == [kind |-> "raise", value |-> <<>>, msg |-> msg]

\* checkRepositoryExists taking a missing answer for an existing repository
\* (mutant).
checkRepositoryExists_IgnoresNone(resp) ==
    LET response == makeRequest(resp, <<1>>)
    IN  IF response.kind = "raise" THEN Propagate(response.msg)
        ELSE Value(TRUE)

\* GitHubApiClient.checkRepositoryExists: TRUE, FALSE, or the exception of
\* makeRequest.
checkRepositoryExists(resp) ==
    LET response == makeRequest(resp, <<1>>)
    IN  IF response.kind = "raise" THEN Propagate(response.msg)
        ELSE Value(response.kind # "none")

\* CommitCollector.collectCommitData, given how makePaginatedRequest ended
\* and whether the records make _processCommitAuthors raise.
collectCommitData(fetch, bad) ==
    IF fetch.ctl = "raise" \/ bad THEN Value(ZeroCommitMetrics)
    ELSE Value([count |-> Len(fetch.all_data)])

\* PullRequestCollector.collectPullRequestData.
collectPullRequestData(fetch, bad) ==
    IF fetch.ctl = "raise" \/ bad THEN Value(ZeroPullRequestMetrics)
    ELSE Value([open |-> Len(fetch.all_data), merged |-> 0, closed |-> 0])

\* collectIssueData letting its exception out (mutant).
collectIssueData_Propagates(fetch, bad) ==
    IF fetch.ctl = "raise" \/ bad THEN Propagate(fetch.msg)
    ELSE Value([open |-> Len(fetch.all_data), closed |-> 0])

\* IssueCollector.collectIssueData.
collectIssueData(fetch, bad) ==
    IF fetch.ctl = "raise" \/ bad THEN Value(ZeroIssueMetrics)
    ELSE Value([open |-> Len(fetch.all_data), closed |-> 0])

\* ReviewCollector._getAllPullRequests inside the try of collectReviewData:
\* the pull requests to loop over, or the zero record of the handler.
\* `bad`: a listed pull request has no "number".
getAllPullRequests(fetch, bad) ==
    IF fetch.ctl = "raise" \/ bad THEN [failed |-> TRUE, pulls |-> 0]
    ELSE [failed |-> FALSE, pulls |-> Len(fetch.all_data)]

\* ReviewCollector._getReviewsForPullRequest: the reviews fetched, or []
\* when makePaginatedRequest raised.
getReviewsForPullRequest(fetch) ==
    IF fetch.ctl = "raise" THEN <<>> ELSE fetch.all_data

RECURSIVE SumOver(_, _)
SumOver(f, n) == IF n = 0 THEN 0 ELSE f[n] + SumOver(f, n - 1)

\* DataCombiner.combineRepositoryMetrics.
combineRepositoryMetrics(ms) ==
    LET n == Len(ms)
    IN  [commits |-> [count |-> SumOver([i \in 1..n |-> ms[i].commits.count], n)],
         pull_requests |->
            [open |-> SumOver([i \in 1..n |-> ms[i].pull_requests.open], n),
             merged |-> SumOver([i \in 1..n |-> ms[i].pull_requests.merged], n),
             closed |-> SumOver([i \in 1..n |-> ms[i].pull_requests.closed], n)],
         reviews |-> [count |-> SumOver([i \in 1..n |-> ms[i].reviews.count], n)],
         issues |->
            [open |-> SumOver([i \in 1..n |-> ms[i].issues.open], n),
             closed |-> SumOver([i \in 1..n |-> ms[i].issues.closed], n)],
         repositories_count |-> n]

NameLists ==
    UNION {{l \in [1..n -> {"near/a", "near/b", "near/c", "near/d", "noslash"}] :
               \A i \in 1..n : l[i] \in {RepositoryAt[i], "noslash"}} :
           n \in 1..MaxRepos}

OffchainInit ==
    /\ repository_names \in NameLists
    /\ records \in {0, PerPage}
    /\ page = 1
    /\ all_data = <<>>
    /\ repo_idx = 1
    /\ off_pc = "repo"
    /\ commit_metrics = ZeroCommitMetrics
    /\ pr_metrics = ZeroPullRequestMetrics
    /\ review_metrics = ZeroReviewMetrics
    /\ issue_metrics = ZeroIssueMetrics
    /\ pulls_data = 0
    /\ pr_i = 1
    /\ total_reviews = 0
    /\ repositories_metrics = <<>>
    /\ successful_collections = 0
    /\ combined_metrics = NoResult
    /\ last_request = NoRequest
    /\ repo_requests = <<>>

repo_name == repository_names[repo_idx]

\* One more request of the running makePaginatedRequest call.
FetchPage(resp) ==
    makePaginatedRequest(page, all_data, resp,
                         PageItems(records, page, PerPage), PerPage)

\* A request of kind `kind` was sent and answered resp.
Sent(kind, resp, bad) ==
    /\ last_request' = [kind |-> kind, status |-> resp.status,
                        rate_phrase |-> resp.rate_phrase, bad |-> bad]
    /\ repo_requests' = IF repo_requests[Len(repo_requests)] = kind
                        THEN repo_requests ELSE Append(repo_requests, kind)

\* The paginated call goes on with its next page.
NextPage(r) ==
    /\ page' = r.page
    /\ all_data' = r.all_data

\* A new paginated call starts.
NewFetch ==
    /\ page' = 1
    /\ all_data' = <<>>

\* collectRepositoryData lines 81-83: _collectSingleRepositoryData returned
\* repo_metrics; it is appended and counted, and the loop goes on.
Collected(repo_metrics) ==
    /\ repositories_metrics' = Append(repositories_metrics, repo_metrics)
    /\ successful_collections' = successful_collections + 1
    /\ repo_idx' = repo_idx + 1
    /\ off_pc' = "repo"

\* collectRepositoryData lines 85-88: what `except Exception` does with the
\* exception of _collectSingleRepositoryData: log it and `continue`.
onRepositoryException(msg) == "continue"

\* _collectSingleRepositoryData raised msg.
Skipped(msg) ==
    /\ IF onRepositoryException(msg) = "continue"
       THEN repo_idx' = repo_idx + 1 /\ off_pc' = "repo"
       ELSE repo_idx' = repo_idx /\ off_pc' = "raised"
    /\ UNCHANGED <<repositories_metrics, successful_collections>>

\* _collectSingleRepositoryData up to the first collector: from_full_name and
\* the existence check.
BeginRepository ==
    /\ off_pc = "repo"
    /\ repo_idx <= Len(repository_names)
    /\ commit_metrics' = ZeroCommitMetrics
    /\ pr_metrics' = ZeroPullRequestMetrics
    /\ review_metrics' = ZeroReviewMetrics
    /\ issue_metrics' = ZeroIssueMetrics
    /\ pulls_data' = 0
    /\ pr_i' = 1
    /\ total_reviews' = 0
    /\ NewFetch
    /\ IF from_full_name(repo_name).kind = "raise"
       THEN /\ Skipped(from_full_name(repo_name).msg)
            /\ last_request' = NoRequest
            /\ repo_requests' = <<>>
       ELSE \E resp \in Responses :
            LET exists == checkRepositoryExists(resp)
            IN  /\ last_request' = [kind |-> "exists", status |-> resp.status,
                                    rate_phrase |-> resp.rate_phrase, bad |-> FALSE]
                /\ repo_requests' = <<"exists">>
                /\ IF exists.kind = "raise" THEN Skipped(exists.msg)
                   ELSE IF ~exists.value
                   THEN Collected(createEmptyRepositoryMetrics(repo_name))
                   ELSE /\ off_pc' = "commits"
                        /\ UNCHANGED <<repo_idx, repositories_metrics,
                                       successful_collections>>
    /\ UNCHANGED <<repository_names, records, combined_metrics, notOffchainVars>>

\* _collectSingleRepositoryData lines 163-165: an exception reached the
\* controller's own handler, which returns the empty record.
ControllerCaught ==
    Collected(createEmptyRepositoryMetrics(repo_name))

\* collectCommitData: one page of its makePaginatedRequest and, when that
\* call ends, the rest of the collector.
CommitPage ==
    /\ off_pc = "commits"
    /\ \E resp \in Responses, bad \in BOOLEAN :
        LET r == FetchPage(resp)
            c == collectCommitData(r, bad)
        IN  /\ bad => (r.ctl = "break" /\ r.all_data # <<>>)
            /\ Sent("commits", resp, bad)
            /\ IF r.ctl = "loop"
               THEN /\ NextPage(r)
                    /\ UNCHANGED <<commit_metrics, off_pc, repo_idx,
                                   repositories_metrics, successful_collections>>
               ELSE /\ NewFetch
                    /\ IF c.kind = "raise"
                       THEN ControllerCaught /\ UNCHANGED commit_metrics
                       ELSE /\ commit_metrics' = c.value
                            /\ off_pc' = "pulls"
                            /\ UNCHANGED <<repo_idx, repositories_metrics,
                                           successful_collections>>
    /\ UNCHANGED <<repository_names, records, pr_metrics, review_metrics,
                   issue_metrics, pulls_data, pr_i, total_reviews,
                   combined_metrics, notOffchainVars>>

\* collectPullRequestData, page by page.
PullRequestPage ==
    /\ off_pc = "pulls"
    /\ \E resp \in Responses, bad \in BOOLEAN :
        LET r == FetchPage(resp)
            c == collectPullRequestData(r, bad)
        IN  /\ bad => (r.ctl = "break" /\ r.all_data # <<>>)
            /\ Sent("pulls", resp, bad)
            /\ IF r.ctl = "loop"
               THEN /\ NextPage(r)
                    /\ UNCHANGED <<pr_metrics, off_pc, repo_idx,
                                   repositories_metrics, successful_collections>>
               ELSE /\ NewFetch
                    /\ IF c.kind = "raise"
                       THEN ControllerCaught /\ UNCHANGED pr_metrics
                       ELSE /\ pr_metrics' = c.value
                            /\ off_pc' = "review_pulls"
                            /\ UNCHANGED <<repo_idx, repositories_metrics,
                                           successful_collections>>
    /\ UNCHANGED <<repository_names, records, commit_metrics, review_metrics,
                   issue_metrics, pulls_data, pr_i, total_reviews,
                   combined_metrics, notOffchainVars>>

\* collectReviewData, first part: _getAllPullRequests, page by page.
ReviewPullsPage ==
    /\ off_pc = "review_pulls"
    /\ \E resp \in Responses, bad \in BOOLEAN :
        LET r == FetchPage(resp)
            g == getAllPullRequests(r, bad)
        IN  /\ bad => (r.ctl = "break" /\ r.all_data # <<>>)
            /\ Sent("review_pulls", resp, bad)
            /\ IF r.ctl = "loop"
               THEN /\ NextPage(r)
                    /\ UNCHANGED <<review_metrics, off_pc, pulls_data>>
               ELSE /\ NewFetch
                    /\ pulls_data' = g.pulls
                    /\ IF g.failed \/ g.pulls = 0
                       THEN /\ review_metrics' = ZeroReviewMetrics
                            /\ off_pc' = "issues"
                       ELSE /\ off_pc' = "reviews"
                            /\ UNCHANGED review_metrics
    /\ UNCHANGED <<repository_names, records, commit_metrics, pr_metrics,
                   issue_metrics, pr_i, total_reviews, repo_idx,
                   repositories_metrics, successful_collections,
                   combined_metrics, notOffchainVars>>

\* collectReviewData, the loop over the pull requests:
\* _getReviewsForPullRequest of pull request pr_i, page by page, then the
\* date filter, the count and, after the last pull request, the return.
\* `bad`: a review fetched makes the loop body raise (its "user" is not a
\* mapping), which the handler of collectReviewData turns into the zero
\* record.
ReviewPage ==
    /\ off_pc = "reviews"
    /\ \E resp \in Responses, bad \in BOOLEAN :
        LET r == FetchPage(resp)
            pr_reviews == getReviewsForPullRequest(r)
        IN  /\ bad => (r.ctl = "break" /\ r.all_data # <<>>)
            /\ Sent("reviews", resp, bad)
            /\ IF r.ctl = "loop"
               THEN /\ NextPage(r)
                    /\ UNCHANGED <<review_metrics, off_pc, pr_i,
                                   total_reviews>>
               ELSE IF bad
               THEN /\ NewFetch
                    /\ review_metrics' = ZeroReviewMetrics
                    /\ off_pc' = "issues"
                    /\ UNCHANGED <<pr_i, total_reviews>>
               ELSE /\ NewFetch
                    /\ total_reviews' = total_reviews + Len(pr_reviews)
                    /\ pr_i' = pr_i + 1
                    /\ IF pr_i = pulls_data
                       THEN /\ review_metrics' = [count |-> total_reviews']
                            /\ off_pc' = "issues"
                       ELSE UNCHANGED <<review_metrics, off_pc>>
    /\ UNCHANGED <<repository_names, records, commit_metrics, pr_metrics,
                   issue_metrics, pulls_data, repo_idx, repositories_metrics,
                   successful_collections, combined_metrics,
                   notOffchainVars>>

\* collectIssueData, page by page, then the assembly of RepositoryMetrics
\* and the return of _collectSingleRepositoryData.
IssuePage ==
    /\ off_pc = "issues"
    /\ \E resp \in Responses, bad \in BOOLEAN :
        LET r == FetchPage(resp)
            c == collectIssueData(r, bad)
        IN  /\ bad => (r.ctl = "break" /\ r.all_data # <<>>)
            /\ Sent("issues", resp, bad)
            /\ IF r.ctl = "loop"
               THEN /\ NextPage(r)
                    /\ UNCHANGED <<issue_metrics, off_pc, repo_idx,
                                   repositories_metrics, successful_collections>>
               ELSE /\ NewFetch
                    /\ IF c.kind = "raise"
                       THEN ControllerCaught /\ UNCHANGED issue_metrics
                       ELSE /\ issue_metrics' = c.value
                            /\ Collected([repository_name |-> repo_name,
                                          commits |-> commit_metrics,
                                          pull_requests |-> pr_metrics,
                                          reviews |-> review_metrics,
                                          issues |-> c.value])
    /\ UNCHANGED <<repository_names, records, commit_metrics, pr_metrics,
                   review_metrics, pulls_data, pr_i, total_reviews,
                   combined_metrics, notOffchainVars>>

\* collectRepositoryData after the loop: combine and return.
CombineRepositoryMetrics ==
    /\ off_pc = "repo"
    /\ repo_idx > Len(repository_names)
    /\ combined_metrics' = combineRepositoryMetrics(repositories_metrics)
    /\ off_pc' = "done"
    /\ UNCHANGED <<repository_names, repo_idx, records, page, all_data,
                   commit_metrics, pr_metrics, review_metrics, issue_metrics,
                   pulls_data, pr_i, total_reviews, repositories_metrics,
                   successful_collections, last_request, repo_requests,
                   notOffchainVars>>

OffchainNext ==
    \/ BeginRepository
    \/ CommitPage
    \/ PullRequestPage
    \/ ReviewPullsPage
    \/ ReviewPage
    \/ IssuePage
    \/ CombineRepositoryMetrics

InitOffchain ==
    /\ OffchainInit
    /\ requests = <<>> /\ client = "none" /\ pg_pc = "idle"
    /\ LimiterIdle
    /\ OnchainIdle
    /\ LambdaIdle
    /\ DownstreamIdle

SpecOffchain == InitOffchain /\ [][OffchainNext]_vars

CollectorStages == {"commits", "pulls", "review_pulls", "reviews", "issues"}

LastMetrics == repositories_metrics[Len(repositories_metrics)]

\* The position in the input list of the repository a record is for.
PositionOf(m) ==
    CHOOSE i \in 1..Len(repository_names) : repository_names[i] = m.repository_name

\* The latest request was answered 403 "API rate limit exceeded".
RateLimitAnswered == last_request.status = 403 /\ last_request.rate_phrase

\* C1: once a request is answered 403 "API rate limit exceeded", the error
\* leaves collectRepositoryData: the call ends raised, and no CombinedMetrics
\* is returned.
C1_RateLimitIsFatal ==
    RateLimitAnswered => (off_pc = "raised" /\ combined_metrics = NoResult)

\* The weaker half of C1 alone: after such an answer no CombinedMetrics is
\* returned.
RateLimitedRunReturnsNothing ==
    RateLimitAnswered => combined_metrics = NoResult

\* The existence check of the repository just handled was answered "not
\* found": makeRequest returned None.
NotFoundAnswer ==
    last_request.kind = "exists" /\ last_request.status \notin {200, 403}

\* C2: the first request for a repository is its existence check and no
\* collector is entered without it; when the check says not found no
\* collector request is made for the repository, the all-zero record is
\* appended for it and the loop stands at the next repository; the records
\* appended follow the order of the input list.
C2_ExistenceCheckFirst ==
    /\ off_pc \in CollectorStages =>
          /\ repo_requests # <<>>
          /\ last_request.kind \in {"exists"} \cup CollectorStages
    /\ repo_requests # <<>> => Head(repo_requests) = "exists"
    /\ \A i \in 2..Len(repo_requests) : repo_requests[i] \in CollectorStages
    /\ NotFoundAnswer =>
          /\ repo_requests = <<"exists">>
          /\ off_pc \in {"repo", "done"}
          /\ repositories_metrics # <<>>
          /\ LastMetrics = createEmptyRepositoryMetrics(repository_names[repo_idx - 1])
          /\ off_pc = "done" => repo_idx = Len(repository_names) + 1
    /\ \A i, j \in 1..Len(repositories_metrics) :
          i < j => PositionOf(repositories_metrics[i]) < PositionOf(repositories_metrics[j])
    /\ \A i \in 1..Len(repositories_metrics) :
          PositionOf(repositories_metrics[i]) < repo_idx

\* The first repository was not found, got the all-zero record, and the
\* second repository is being collected.
C2_Witness ==
    /\ Len(repositories_metrics) = 1
    /\ repositories_metrics[1] = createEmptyRepositoryMetrics("near/a")
    /\ successful_collections = 1
    /\ repo_idx = 2
    /\ off_pc = "pulls"
    /\ commit_metrics.count > 0

\* The request of this step made the collector's code raise: makeRequest
\* raised on a 403, or the records fetched made the processing raise.
RaisedNow == last_request'.status = 403 \/ last_request'.bad

C9_NotFoundCountedAsFailure ==
    [][(/\ off_pc = "repo"
        /\ repo_idx' = repo_idx + 1
        /\ last_request'.kind = "exists"
        /\ last_request'.status = 404)
       => /\ repositories_metrics' =
                Append(repositories_metrics, createEmptyRepositoryMetrics(repo_name))
          /\ successful_collections' = successful_collections]_vars

\* What does hold of C9: the all-zero record is appended, without any
\* exception, and the repository is counted as collected.
NotFoundCountedAsCollected ==
    [][(/\ off_pc = "repo"
        /\ repo_idx' = repo_idx + 1
        /\ last_request'.kind = "exists"
        /\ last_request'.status = 404)
       => /\ repositories_metrics' =
                Append(repositories_metrics, createEmptyRepositoryMetrics(repo_name))
          /\ off_pc' = "repo"
          /\ successful_collections' = successful_collections + 1]_vars

\* ---------------------------------------------------------------- SpecOnchain
\* One call of OnchainController.collectAccountData or
\* collectAccountDataByDateRange: the account check, the two paginated
\* fetches of _collectAccountMetrics, and calculateMetrics, all inside the
\* try/except of the entry point.

OnchainEntries == {"collectAccountData", "collectAccountDataByDateRange"}

\* A well-formed account id and one AccountInfo.is_valid rejects; the entry
\* points only log a warning for the second.
AccountIds == {"app.near", "Not Valid"}

\* OnchainController._createEmptyMetrics.
createEmptyMetrics(id) == [account_id |-> id, transaction_count |-> 0]

\* OnchainDataValidator.calculateMetrics: the transaction count is the number
\* of transactions and receipts together.
calculateMetrics(id, txns, rcpts) ==
    [account_id |-> id, transaction_count |-> Len(txns \o rcpts)]

\* NearBlocksApiClient.checkAccountExists.
checkAccountExists(resp) ==
    IF resp.status = RequestException THEN FALSE ELSE resp.status = 200

\* The `except Exception` of the entry point, lines 95-97 and 139-141: the
\* error is logged and the all-zero record is returned.
onAccountException(id, msg) == Value(createEmptyMetrics(id))

OnchainInit ==
    /\ on_entry \in OnchainEntries
    /\ account_id \in AccountIds
    /\ txn_records \in 0..MaxRecords
    /\ rcpt_records \in 0..MaxRecords
    /\ on_pc = "exists"
    /\ on_page = 1
    /\ all_transactions = <<>>
    /\ all_receipts = <<>>
    /\ on_result = NoMetrics
    /\ on_last = [kind |-> "none", status |-> -1]

\* The entry point ends with what its exception handler makes of msg.
AccountCaught(msg) ==
    LET h == onAccountException(account_id, msg)
    IN  IF h.kind = "raise"
        THEN on_pc' = "raised" /\ on_result' = on_result
        ELSE on_pc' = "returned" /\ on_result' = h.value

\* Lines 85-87 and 129-131: the account check and the early return.
CheckAccountExists ==
    /\ on_pc = "exists"
    /\ \E resp \in Responses :
        /\ on_last' = [kind |-> "exists", status |-> resp.status]
        /\ IF checkAccountExists(resp)
           THEN on_pc' = "transactions" /\ on_result' = on_result
           ELSE on_pc' = "returned" /\ on_result' = createEmptyMetrics(account_id)
    /\ UNCHANGED <<on_entry, account_id, txn_records, rcpt_records, on_page,
                   all_transactions, all_receipts, notOnchainVars>>

\* One iteration of fetchTransactionData inside _collectAccountMetrics.
AccountTransactionsPage ==
    /\ on_pc = "transactions"
    /\ \E resp \in Responses :
        LET r == fetchTransactionData(on_page, all_transactions, resp,
                                      PageItems(txn_records, on_page, PerPage), PerPage)
        IN  /\ on_last' = [kind |-> "transactions", status |-> resp.status]
            /\ IF r.ctl = "raise"
               THEN /\ AccountCaught(r.msg)
                    /\ UNCHANGED <<on_page, all_transactions>>
               ELSE /\ all_transactions' = r.all_data
                    /\ on_page' = (IF r.ctl = "break" THEN 1 ELSE r.page)
                    /\ on_pc' = (IF r.ctl = "break" THEN "receipts" ELSE "transactions")
                    /\ on_result' = on_result
    /\ UNCHANGED <<on_entry, account_id, txn_records, rcpt_records, all_receipts,
                   notOnchainVars>>

\* One iteration of fetchReceiptData inside _collectAccountMetrics; when the
\* fetch returns, calculateMetrics and the return of the entry point.
AccountReceiptsPage ==
    /\ on_pc = "receipts"
    /\ \E resp \in Responses :
        LET r == fetchReceiptData(on_page, all_receipts, resp,
                                  PageItems(rcpt_records, on_page, PerPage), PerPage)
        IN  /\ on_last' = [kind |-> "receipts", status |-> resp.status]
            /\ IF r.ctl = "raise"
               THEN /\ AccountCaught(r.msg)
                    /\ UNCHANGED <<on_page, all_receipts>>
               ELSE /\ all_receipts' = r.all_data
                    /\ on_page' = r.page
                    /\ IF r.ctl = "break"
                       THEN /\ on_pc' = "returned"
                            /\ on_result' = calculateMetrics(account_id, all_transactions, r.all_data)
                       ELSE /\ on_pc' = "receipts"
                            /\ on_result' = on_result
    /\ UNCHANGED <<on_entry, account_id, txn_records, rcpt_records, all_transactions,
                   notOnchainVars>>

OnchainNext == CheckAccountExists \/ AccountTransactionsPage \/ AccountReceiptsPage

InitOnchain ==
    OnchainInit /\ PageIdle /\ LimiterIdle /\ OffchainIdle /\ LambdaIdle /\ DownstreamIdle

SpecOnchain == InitOnchain /\ [][OnchainNext]_vars

\* The indexer answered 403 to a transactions or receipts request.
ForbiddenWhileFetching ==
    on_last.kind \in {"transactions", "receipts"} /\ on_last.status = 403

\* C8: a 403 from the indexer while transactions or receipts are fetched is
\* fatal: the call ends with the error raised to its caller and returns no
\* OnchainMetrics record.
C8_ForbiddenIsFatal ==
    ForbiddenWhileFetching => (on_pc = "raised" /\ on_result = NoMetrics)

\* What the entry points do instead: the call returns, and what it returns is
\* the all-zero record of the account.
ForbiddenGivesEmptyMetrics ==
    ForbiddenWhileFetching =>
        (on_pc = "returned" /\ on_result = createEmptyMetrics(account_id))

\* -------------------------------------------------------------- SpecLambda
\* lambda_handler of scripts/lambda/main.py: load the projects, process each
\* in turn, save the results, return the counts.

\* How the processing of one project (the body of the `try`) can end: it
\* completes; it raises an Exception whose message lacks, or contains, "API
\* rate limit exceeded"; or get_all of scripts/lambda/offchain.py calls
\* sys.exit(1), whose SystemExit no `except Exception` catches.
Outcomes == {"ok", "error", "rate_limit_error", "system_exit"}

\* The PROJECTS lists: entry i is project i; keys is FALSE for an entry of
\* data.json that lacks "project" or "wallet".
ProjectLists ==
    UNION {{l \in [1..n -> [project : 1..MaxProjects, keys : BOOLEAN]] :
               \A i \in 1..n : l[i].project = i} :
           n \in 0..MaxProjects}

\* The except clause of the loop treating every Exception as fatal (mutant).
processProject_StopOnError(res, project, outcome) ==
    IF outcome = "ok"
    THEN [results |-> Append(res, [project |-> project.project, error |-> FALSE]),
          ctl |-> "next"]
    ELSE IF outcome = "system_exit"
    THEN [results |-> res, ctl |-> "exit"]
    ELSE [results |-> Append(res, [project |-> project.project, error |-> TRUE]),
          ctl |-> "exit"]

\* Lines 110-183, the try/except of one iteration: what it appends to
\* results and how the loop goes on.
processProject(res, project, outcome) ==
    IF outcome = "ok"
    THEN [results |-> Append(res, [project |-> project.project, error |-> FALSE]),
          ctl |-> "next"]
    ELSE IF outcome = "system_exit"
    THEN [results |-> res, ctl |-> "exit"]
    ELSE [results |-> Append(res, [project |-> project.project, error |-> TRUE]),
          ctl |-> IF outcome = "rate_limit_error" THEN "exit" ELSE "next"]

\* Lines 225-227: the counts of the returned body.
countsOf(res) ==
    [statusCode |-> 200,
     projects_processed |-> Len(res),
     successful_projects |-> Cardinality({i \in 1..Len(res) : ~res[i].error}),
     failed_projects |-> Cardinality({i \in 1..Len(res) : res[i].error})]

LambdaInit ==
    /\ PROJECTS \in ProjectLists
    /\ index = 1
    /\ results = <<>>
    /\ outcomes = <<>>
    /\ lm_pc = "load"
    /\ returned = NoResponse

\* Lines 68-96: no project loaded ends the call with a 500 answer.
LoadProjects ==
    /\ lm_pc = "load"
    /\ IF PROJECTS = <<>>
       THEN lm_pc' = "returned" /\ returned' = [statusCode |-> 500]
       ELSE lm_pc' = "loop" /\ returned' = returned
    /\ UNCHANGED <<PROJECTS, index, results, outcomes, notLambdaVars>>

\* Lines 101-183: one iteration of the loop over PROJECTS. project_result
\* is built before the try, so a missing key raises KeyError out of the
\* handler.
ProcessProject ==
    /\ lm_pc = "loop"
    /\ LET project == PROJECTS[index]
       IN  IF ~project.keys
           THEN /\ lm_pc' = "key_error"
                /\ UNCHANGED <<index, results, outcomes>>
           ELSE \E outcome \in Outcomes :
                   LET r == processProject(results, project, outcome)
                   IN  /\ results' = r.results
                       /\ outcomes' = Append(outcomes, outcome)
                       /\ IF r.ctl = "exit"
                          THEN lm_pc' = "exited" /\ index' = index
                          ELSE /\ index' = index + 1
                               /\ lm_pc' = IF index = Len(PROJECTS) THEN "save" ELSE "loop"
    /\ UNCHANGED <<PROJECTS, returned, notLambdaVars>>

\* Lines 185-232: the two put_object calls, which re-raise on failure, and
\* the return.
SaveResults ==
    /\ lm_pc = "save"
    /\ \E s3_ok \in BOOLEAN :
        IF s3_ok
        THEN lm_pc' = "returned" /\ returned' = countsOf(results)
        ELSE lm_pc' = "save_failed" /\ returned' = returned
    /\ UNCHANGED <<PROJECTS, index, results, outcomes, notLambdaVars>>

LambdaNext == LoadProjects \/ ProcessProject \/ SaveResults

InitLambda ==
    LambdaInit /\ PageIdle /\ LimiterIdle /\ OffchainIdle /\ OnchainIdle /\ DownstreamIdle

\* None of the collection components runs.
CollectIdle == PageIdle /\ LimiterIdle /\ OffchainIdle /\ OnchainIdle /\ LambdaIdle

\* None of the components modelled above the collectors' date filters runs.
EarlierIdle == CollectIdle /\ RewardsIdle /\ CombinerIdle /\ EventsIdle

SpecLambda == InitLambda /\ [][LambdaNext]_vars

N == Len(PROJECTS)

\* Entry i of results is the entry of project i, and it carries `error`
\* exactly when the processing of project i raised an Exception.
EntriesMatchProjects ==
    /\ Len(results) <= Len(outcomes)
    /\ \A i \in 1..Len(results) :
          /\ results[i].project = PROJECTS[i].project
          /\ results[i].error = (outcomes[i] \in {"error", "rate_limit_error"})

\* C10 as claimed: whatever the projects raise, the handler goes through the
\* whole list: it never stops inside the loop, there is one entry per
\* project begun, in input order, with `error` iff the project raised, and
\* the counts returned add up to N.
C10_EveryProjectGetsAnEntry ==
    lm_pc \notin {"off", "load"} =>
       /\ lm_pc \notin {"exited", "key_error"}
       /\ EntriesMatchProjects
       /\ Len(results) = Len(outcomes)
       /\ \A i \in 1..Len(outcomes) : (outcomes[i] # "ok") = results[i].error
       /\ lm_pc \in {"save", "returned"} /\ N > 0 => Len(results) = N
       /\ lm_pc = "returned" /\ N > 0 =>
             /\ returned.projects_processed = N
             /\ returned.successful_projects + returned.failed_projects = N

\* C10 amended: the entries of results are those of the first projects, in
\* input order, each with `error` iff processing it raised an Exception; a
\* project that raises an Exception whose message lacks "API rate limit
\* exceeded" is followed by the next project; the loop is left early only
\* by sys.exit (an Exception with that phrase, after its entry is appended,
\* or a SystemExit from the collection, with no entry) or by the KeyError
\* of an entry lacking "project" or "wallet"; and when the handler returns
\* for a non-empty list, there is one entry per project and
\* projects_processed = N, successful_projects + failed_projects = N.
C10_EntriesUnlessFatal ==
    lm_pc \notin {"off", "load"} =>
       /\ EntriesMatchProjects
       /\ \A i \in 1..Len(outcomes) :
             (i < Len(outcomes) \/ lm_pc # "exited") => outcomes[i] \in {"ok", "error"}
       /\ lm_pc = "exited" =>
             /\ outcomes # <<>>
             /\ outcomes[Len(outcomes)] \in {"rate_limit_error", "system_exit"}
             /\ Len(results) = Len(outcomes) - (IF outcomes[Len(outcomes)] = "system_exit" THEN 1 ELSE 0)
       /\ lm_pc # "exited" => Len(results) = Len(outcomes)
       /\ lm_pc = "key_error" => ~PROJECTS[index].keys
       /\ lm_pc = "loop" => index = Len(outcomes) + 1 /\ index <= N
       /\ lm_pc \in {"save", "save_failed"} \/ (lm_pc = "returned" /\ N > 0) =>
             /\ Len(results) = N
             /\ \A i \in 1..N : PROJECTS[i].keys
       /\ lm_pc = "returned" /\ N > 0 =>
             /\ returned.statusCode = 200
             /\ returned.projects_processed = N
             /\ returned.successful_projects + returned.failed_projects = N
             /\ returned.failed_projects =
                   Cardinality({i \in 1..N : outcomes[i] = "error"})

\* The first of several projects raised an ordinary Exception, a later one
\* succeeded, and the handler returned the counts.
C10_Witness ==
    /\ lm_pc = "returned"
    /\ N >= 2
    /\ outcomes[1] = "error"
    /\ results[1].error
    /\ returned.statusCode = 200
    /\ returned.failed_projects >= 1
    /\ returned.successful_projects >= 1

\* ----------------------------------------------------------------- SpecScore
\* calculateTotalRewards of src/data-processor/rewards/total.py with the two
\* scorers it calls. Scores are kept in hundredths of a point, the
\* precision round(x, 2) returns; raw metrics are whole numbers (counts,
\* whole NEAR, whole USDC).

\* Python's round(num / den, 0) for non-negative num: to the nearest
\* integer, a tie to the even one.
round2(num, den) ==
    LET q == num \div den
        r == num % den
    IN  IF 2 * r < den THEN q
        ELSE IF 2 * r > den THEN q + 1
        ELSE IF q % 2 = 0 THEN q ELSE q + 1

\* A denominator every off-chain threshold divides, and one for on-chain.
OffchainDen == 300
OnchainDen == 10000

\* calculateOffchainScore lines 29-41.
offchain_thresholds == [commits |-> 100, pullRequests |-> 25, reviews |-> 30, issues |-> 30]
offchain_max_points == [commits |-> 28, pullRequests |-> 22, reviews |-> 16, issues |-> 14]

\* calculateOnchainScore lines 27-37 and 46.
onchain_thresholds == [transactionVolume |-> 10000, contractCalls |-> 500, uniqueWallets |-> 100]
onchain_max_points == [transactionVolume |-> 8, contractCalls |-> 8, uniqueWallets |-> 4]
near_price_usd == 5

\* min(x / threshold, 1.0) * max_points, in hundredths, as a numerator over
\* den, a multiple of threshold.
scaled(x, threshold, max_points, den) ==
    IF x >= threshold THEN max_points * 100 * den
    ELSE x * max_points * 100 * (den \div threshold)

\* The same without the min (mutant).
scaled_NoClamp(x, threshold, max_points, den) ==
    x * max_points * 100 * (den \div threshold)

\* calculateOffchainScore with components that are not clamped (mutant).
calculateOffchainScore_NoClamp(metrics) ==
    LET t == offchain_thresholds
        mp == offchain_max_points
        commit_score == scaled_NoClamp(metrics.commits.count, t.commits, mp.commits, OffchainDen)
        pr_score == scaled_NoClamp(metrics.pull_requests.merged, t.pullRequests, mp.pullRequests, OffchainDen)
        review_score == scaled_NoClamp(metrics.reviews.count, t.reviews, mp.reviews, OffchainDen)
        issue_score == scaled_NoClamp(metrics.issues.closed, t.issues, mp.issues, OffchainDen)
        total_score == commit_score + pr_score + review_score + issue_score
    IN  [total |-> round2(total_score, OffchainDen),
         breakdown |-> [commits |-> round2(commit_score, OffchainDen),
                        pullRequests |-> round2(pr_score, OffchainDen),
                        reviews |-> round2(review_score, OffchainDen),
                        issues |-> round2(issue_score, OffchainDen)]]

\* calculateOffchainScore: the "score" entry of what it returns.
calculateOffchainScore(metrics) ==
    LET t == offchain_thresholds
        mp == offchain_max_points
        commit_score == scaled(metrics.commits.count, t.commits, mp.commits, OffchainDen)
        pr_score == scaled(metrics.pull_requests.merged, t.pullRequests, mp.pullRequests, OffchainDen)
        review_score == scaled(metrics.reviews.count, t.reviews, mp.reviews, OffchainDen)
        issue_score == scaled(metrics.issues.closed, t.issues, mp.issues, OffchainDen)
        total_score == commit_score + pr_score + review_score + issue_score
    IN  [total |-> round2(total_score, OffchainDen),
         breakdown |-> [commits |-> round2(commit_score, OffchainDen),
                        pullRequests |-> round2(pr_score, OffchainDen),
                        reviews |-> round2(review_score, OffchainDen),
                        issues |-> round2(issue_score, OffchainDen)]]

\* calculateOnchainScore lines 45-46: the volume in USD.
total_volume_usd(metrics) ==
    metrics.transaction_volume.total_volume_near * near_price_usd
        + metrics.transaction_volume.total_volume_usdc

\* calculateOnchainScore: the "score" entry of what it returns.
calculateOnchainScore(metrics) ==
    LET t == onchain_thresholds
        mp == onchain_max_points
        volume_score == scaled(total_volume_usd(metrics), t.transactionVolume,
                               mp.transactionVolume, OnchainDen)
        contract_score == scaled(metrics.smart_contracts.unique_contract_calls,
                                 t.contractCalls, mp.contractCalls, OnchainDen)
        wallet_score == scaled(metrics.unique_wallets.unique_wallets,
                               t.uniqueWallets, mp.uniqueWallets, OnchainDen)
        total_score == volume_score + contract_score + wallet_score
    IN  [total |-> round2(total_score, OnchainDen),
         breakdown |-> [transactionVolume |-> round2(volume_score, OnchainDen),
                        contractCalls |-> round2(contract_score, OnchainDen),
                        uniqueWallets |-> round2(wallet_score, OnchainDen)]]

\* determineLevel with Gold starting at 75 (mutant).
determineLevel_GoldAt75(s) ==
    IF s >= 85 * 100 THEN "Diamond"
    ELSE IF s >= 75 * 100 THEN "Gold"
    ELSE IF s >= 55 * 100 THEN "Silver"
    ELSE IF s >= 40 * 100 THEN "Bronze"
    ELSE IF s >= 20 * 100 THEN "Contributor"
    ELSE IF s >= 1 * 100 THEN "Explorer"
    ELSE "No Tier"

\* determineLevel: the name of the level, for a score in hundredths.
determineLevel(s) ==
    IF s >= 85 * 100 THEN "Diamond"
    ELSE IF s >= 70 * 100 THEN "Gold"
    ELSE IF s >= 55 * 100 THEN "Silver"
    ELSE IF s >= 40 * 100 THEN "Bronze"
    ELSE IF s >= 20 * 100 THEN "Contributor"
    ELSE IF s >= 1 * 100 THEN "Explorer"
    ELSE "No Tier"

\* calculateMonetaryReward, for a score in hundredths.
calculateMonetaryReward(s) ==
    IF s >= 85 * 100 THEN 10000
    ELSE IF s >= 70 * 100 THEN 6000
    ELSE IF s >= 55 * 100 THEN 3000
    ELSE IF s >= 40 * 100 THEN 1000
    ELSE IF s >= 20 * 100 THEN 500
    ELSE IF s >= 1 * 100 THEN 100
    ELSE 0

\* `if offchain_metrics:` / `if onchain_metrics:`: None and {} are falsy.
truthy(metrics) == "absent" \notin DOMAIN metrics

\* The `details` entry of a category that was not scored.
NoDetails == [total |-> 0, breakdown |-> [none |-> 0]]

\* calculateTotalRewards taking the level from the off-chain score alone
\* (mutant).
calculateTotalRewards_LevelFromOffchain(on_m, off_m) ==
    LET offchain_result == IF truthy(off_m) THEN calculateOffchainScore(off_m) ELSE NoDetails
        onchain_result == IF truthy(on_m) THEN calculateOnchainScore(on_m) ELSE NoDetails
        total_score == onchain_result.total + offchain_result.total
    IN  [total |-> total_score,
         breakdown |-> [onchain |-> onchain_result.total, offchain |-> offchain_result.total],
         level |-> determineLevel(offchain_result.total),
         total_reward |-> calculateMonetaryReward(offchain_result.total),
         details |-> [offchain |-> offchain_result, onchain |-> onchain_result]]

\* calculateTotalRewards scoring nothing unless both categories are present
\* (mutant).
calculateTotalRewards_NeedsBoth(on_m, off_m) ==
    LET both == truthy(off_m) /\ truthy(on_m)
        offchain_result == IF both THEN calculateOffchainScore(off_m) ELSE NoDetails
        onchain_result == IF both THEN calculateOnchainScore(on_m) ELSE NoDetails
        total_score == onchain_result.total + offchain_result.total
    IN  [total |-> total_score,
         breakdown |-> [onchain |-> onchain_result.total, offchain |-> offchain_result.total],
         level |-> determineLevel(total_score),
         total_reward |-> calculateMonetaryReward(total_score),
         details |-> [offchain |-> offchain_result, onchain |-> onchain_result]]

\* calculateTotalRewards.
calculateTotalRewards(on_m, off_m) ==
    LET offchain_result == IF truthy(off_m) THEN calculateOffchainScore(off_m) ELSE NoDetails
        onchain_result == IF truthy(on_m) THEN calculateOnchainScore(on_m) ELSE NoDetails
        total_score == onchain_result.total + offchain_result.total
    IN  [total |-> total_score,
         breakdown |-> [onchain |-> onchain_result.total, offchain |-> offchain_result.total],
         level |-> determineLevel(total_score),
         total_reward |-> calculateMonetaryReward(total_score),
         details |-> [offchain |-> offchain_result, onchain |-> onchain_result]]

\* Raw values around a threshold.
Around(t) == {0, t - 1, t, t + 1}
AroundHalf(t) == {0, t \div 2, t - 1, t, t + 1}

CommitCounts == Around(offchain_thresholds.commits)
MergedCounts == Around(offchain_thresholds.pullRequests)
ReviewCounts == Around(offchain_thresholds.reviews)
ClosedCounts == Around(offchain_thresholds.issues)
\* Volumes of 0, 9990, 9994, 10000 and more USD.
NearVolumes == {0, 1998, 2000}
UsdcVolumes == {0, 4, 10}
ContractCalls == AroundHalf(onchain_thresholds.contractCalls)
WalletCounts == AroundHalf(onchain_thresholds.uniqueWallets)

AbsentArgs == {[absent |-> "None"], [absent |-> "{}"]}

OffchainArgs ==
    {[commits |-> [count |-> c], pull_requests |-> [merged |-> p],
      reviews |-> [count |-> r], issues |-> [closed |-> i]] :
        c \in CommitCounts, p \in MergedCounts, r \in ReviewCounts, i \in ClosedCounts}

OnchainArgs ==
    {[transaction_volume |-> [total_volume_near |-> n, total_volume_usdc |-> u],
      smart_contracts |-> [unique_contract_calls |-> k],
      unique_wallets |-> [unique_wallets |-> w]] :
        n \in NearVolumes, u \in UsdcVolumes, k \in ContractCalls, w \in WalletCounts}

ScoreInit ==
    /\ offchain_metrics \in OffchainArgs \cup AbsentArgs
    /\ onchain_metrics \in OnchainArgs \cup AbsentArgs
    /\ rewards = NoRewards
    /\ sc_pc = "call"

CalculateTotalRewards ==
    /\ sc_pc = "call"
    /\ rewards' = calculateTotalRewards(onchain_metrics, offchain_metrics)
    /\ sc_pc' = "returned"
    /\ UNCHANGED <<onchain_metrics, offchain_metrics, notScoreVars>>

ScoreNext == CalculateTotalRewards

InitScore == ScoreInit /\ CollectIdle /\ TierIdle /\ CombinerIdle /\ EventsIdle /\ LaterIdle

SpecScore == InitScore /\ [][ScoreNext]_vars

\* The tier table: lower bound in points, name, amount.
TierTable ==
    {[min |-> 85, name |-> "Diamond", amount |-> 10000],
     [min |-> 70, name |-> "Gold", amount |-> 6000],
     [min |-> 55, name |-> "Silver", amount |-> 3000],
     [min |-> 40, name |-> "Bronze", amount |-> 1000],
     [min |-> 20, name |-> "Contributor", amount |-> 500],
     [min |-> 1, name |-> "Explorer", amount |-> 100],
     [min |-> 0, name |-> "No Tier", amount |-> 0]}

\* The highest tier whose lower bound is at most the score s (hundredths).
TierOf(s) ==
    CHOOSE t \in TierTable :
        /\ t.min * 100 <= s
        /\ \A u \in TierTable : u.min * 100 <= s => u.min <= t.min

\* A component value v (hundredths) for raw metric x: within 0..max, and at
\* max exactly from the threshold on.
ClampedAt(v, x, threshold, max_points) ==
    /\ 0 <= v
    /\ v <= max_points * 100
    /\ (v = max_points * 100) <=> (x >= threshold)

\* No component of the off-chain breakdown b of metrics m is below the one
\* any smaller sampled value of its raw metric gives.
OffchainMonotone(m, b) ==
    /\ \A x \in CommitCounts : x <= m.commits.count =>
          calculateOffchainScore([m EXCEPT !.commits.count = x]).breakdown.commits <= b.commits
    /\ \A x \in MergedCounts : x <= m.pull_requests.merged =>
          calculateOffchainScore([m EXCEPT !.pull_requests.merged = x]).breakdown.pullRequests
              <= b.pullRequests
    /\ \A x \in ReviewCounts : x <= m.reviews.count =>
          calculateOffchainScore([m EXCEPT !.reviews.count = x]).breakdown.reviews <= b.reviews
    /\ \A x \in ClosedCounts : x <= m.issues.closed =>
          calculateOffchainScore([m EXCEPT !.issues.closed = x]).breakdown.issues <= b.issues

OnchainMonotone(m, b) ==
    /\ \A n \in NearVolumes, u \in UsdcVolumes :
          (n <= m.transaction_volume.total_volume_near
              /\ u <= m.transaction_volume.total_volume_usdc) =>
          calculateOnchainScore([m EXCEPT !.transaction_volume =
              [total_volume_near |-> n, total_volume_usdc |-> u]]).breakdown.transactionVolume
              <= b.transactionVolume
    /\ \A x \in ContractCalls : x <= m.smart_contracts.unique_contract_calls =>
          calculateOnchainScore([m EXCEPT !.smart_contracts.unique_contract_calls = x])
              .breakdown.contractCalls <= b.contractCalls
    /\ \A x \in WalletCounts : x <= m.unique_wallets.unique_wallets =>
          calculateOnchainScore([m EXCEPT !.unique_wallets.unique_wallets = x])
              .breakdown.uniqueWallets <= b.uniqueWallets

\* The off-chain part of C11, which rounding leaves true: whole counts below
\* a threshold never round up to the maximum.
OffchainComponentsClamped ==
    (sc_pc = "returned" /\ truthy(offchain_metrics)) =>
        LET m == offchain_metrics
            b == rewards.details.offchain.breakdown
        IN  /\ ClampedAt(b.commits, m.commits.count, 100, 28)
            /\ ClampedAt(b.pullRequests, m.pull_requests.merged, 25, 22)
            /\ ClampedAt(b.reviews, m.reviews.count, 30, 16)
            /\ ClampedAt(b.issues, m.issues.closed, 30, 14)
            /\ OffchainMonotone(m, b)
            /\ rewards.details.offchain.total <= 80 * 100
            /\ rewards.details.offchain.total >= 0

\* C11 as claimed: every component of both scorers lies within 0 and its
\* maximum, does not decrease when its raw metric grows, is at its maximum
\* exactly when the metric is at or above the threshold, and the totals
\* stay within 80 and 20.
C11_ComponentsMaxExactlyAtThreshold ==
    /\ OffchainComponentsClamped
    /\ (sc_pc = "returned" /\ truthy(onchain_metrics)) =>
        LET m == onchain_metrics
            b == rewards.details.onchain.breakdown
        IN  /\ ClampedAt(b.transactionVolume, total_volume_usd(m), 10000, 8)
            /\ ClampedAt(b.contractCalls, m.smart_contracts.unique_contract_calls, 500, 8)
            /\ ClampedAt(b.uniqueWallets, m.unique_wallets.unique_wallets, 100, 4)
            /\ OnchainMonotone(m, b)
            /\ rewards.details.onchain.total <= 20 * 100

\* C11 amended: as claimed, except that the transactionVolume component,
\* being rounded to two decimals, is at its maximum 8.00 already from a
\* volume of 9993.75 USD on, below the threshold of 10000.
C11_ComponentsClampedAfterRounding ==
    /\ OffchainComponentsClamped
    /\ (sc_pc = "returned" /\ truthy(onchain_metrics)) =>
        LET m == onchain_metrics
            b == rewards.details.onchain.breakdown
        IN  /\ 0 <= b.transactionVolume
            /\ b.transactionVolume <= 8 * 100
            /\ total_volume_usd(m) >= 10000 => b.transactionVolume = 8 * 100
            /\ (b.transactionVolume = 8 * 100) <=> (4 * total_volume_usd(m) >= 39975)
            /\ ClampedAt(b.contractCalls, m.smart_contracts.unique_contract_calls, 500, 8)
            /\ ClampedAt(b.uniqueWallets, m.unique_wallets.unique_wallets, 100, 4)
            /\ OnchainMonotone(m, b)
            /\ rewards.details.onchain.total <= 20 * 100
            /\ rewards.details.onchain.total >= 0

\* 99 commits score 27.72 of 28, 31 reviews score the full 16, and a volume
\* of 9994 USD is reported as the full 8.00.
C11_Witness ==
    /\ sc_pc = "returned"
    /\ truthy(offchain_metrics) /\ truthy(onchain_metrics)
    /\ offchain_metrics.commits.count = 99
    /\ rewards.details.offchain.breakdown.commits = 2772
    /\ offchain_metrics.reviews.count = 31
    /\ rewards.details.offchain.breakdown.reviews = 1600
    /\ total_volume_usd(onchain_metrics) = 9994
    /\ rewards.details.onchain.breakdown.transactionVolume = 800

\* C13: the total calculateTotalRewards returns is the off-chain total plus
\* the on-chain total and is at most 100; the level and the reward it
\* returns are those of the tier of that total; 100 commits, 25 merged pull
\* requests, 30 reviews and 30 closed issues with no on-chain activity give
\* 80.00, Gold, 6000.
C13_TotalIsSumAndTierOfTotal ==
    sc_pc = "returned" =>
        /\ rewards.total = rewards.details.offchain.total + rewards.details.onchain.total
        /\ rewards.total = rewards.breakdown.offchain + rewards.breakdown.onchain
        /\ rewards.total <= 100 * 100
        /\ rewards.level = TierOf(rewards.total).name
        /\ rewards.total_reward = TierOf(rewards.total).amount
        /\ (/\ truthy(offchain_metrics)
            /\ offchain_metrics.commits.count = 100
            /\ offchain_metrics.pull_requests.merged = 25
            /\ offchain_metrics.reviews.count = 30
            /\ offchain_metrics.issues.closed = 30
            /\ (truthy(onchain_metrics) =>
                   /\ total_volume_usd(onchain_metrics) = 0
                   /\ onchain_metrics.smart_contracts.unique_contract_calls = 0
                   /\ onchain_metrics.unique_wallets.unique_wallets = 0))
           => /\ rewards.total = 80 * 100
              /\ rewards.level = "Gold"
              /\ rewards.total_reward = 6000

\* The example of C13 with on-chain metrics that are present and all zero.
C13_Witness ==
    /\ sc_pc = "returned"
    /\ truthy(offchain_metrics) /\ truthy(onchain_metrics)
    /\ offchain_metrics.commits.count = 100
    /\ offchain_metrics.pull_requests.merged = 25
    /\ offchain_metrics.reviews.count = 30
    /\ offchain_metrics.issues.closed = 30
    /\ total_volume_usd(onchain_metrics) = 0
    /\ onchain_metrics.smart_contracts.unique_contract_calls = 0
    /\ onchain_metrics.unique_wallets.unique_wallets = 0
    /\ rewards.total = 8000
    /\ rewards.level = "Gold"
    /\ rewards.total_reward = 6000

\* C14: with exactly one of the two arguments present, calculateTotalRewards
\* returns; the absent category is 0 in the breakdown, and total, level and
\* reward are those of the score of the category that is present.
C14_AbsentCategoryCountsZero ==
    sc_pc = "returned" =>
        /\ (truthy(offchain_metrics) /\ ~truthy(onchain_metrics)) =>
              /\ rewards.breakdown.onchain = 0
              /\ rewards.breakdown.offchain = calculateOffchainScore(offchain_metrics).total
              /\ rewards.total = calculateOffchainScore(offchain_metrics).total
              /\ rewards.level = TierOf(rewards.breakdown.offchain).name
              /\ rewards.total_reward = TierOf(rewards.breakdown.offchain).amount
        /\ (truthy(onchain_metrics) /\ ~truthy(offchain_metrics)) =>
              /\ rewards.breakdown.offchain = 0
              /\ rewards.breakdown.onchain = calculateOnchainScore(onchain_metrics).total
              /\ rewards.total = calculateOnchainScore(onchain_metrics).total
              /\ rewards.level = TierOf(rewards.breakdown.onchain).name
              /\ rewards.total_reward = TierOf(rewards.breakdown.onchain).amount

\* Only on-chain metrics were given, the off-chain argument being None, and
\* the 20 on-chain points alone make the Contributor level.
C14_Witness ==
    /\ sc_pc = "returned"
    /\ offchain_metrics = [absent |-> "None"]
    /\ truthy(onchain_metrics)
    /\ rewards.breakdown.offchain = 0
    /\ rewards.total = 20 * 100
    /\ rewards.level = "Contributor"
    /\ rewards.total_reward = 500

\* ------------------------------------------------------------------ SpecTier
\* determineLevel and calculateMonetaryReward called on one score.

\* The highest score, in points (total.py line 14).
MaxScore == 100

TierInit ==
    /\ score \in 0..(MaxScore * 100)
    /\ level = "none"
    /\ monetary_reward = -1

DetermineLevel ==
    /\ level = "none"
    /\ level' = determineLevel(score)
    /\ UNCHANGED <<score, monetary_reward, notTierVars>>

CalculateMonetaryReward ==
    /\ monetary_reward = -1
    /\ level # "off"
    /\ monetary_reward' = calculateMonetaryReward(score)
    /\ UNCHANGED <<score, level, notTierVars>>

TierNext == DetermineLevel \/ CalculateMonetaryReward

InitTier == TierInit /\ CollectIdle /\ ScoreIdle /\ CombinerIdle /\ EventsIdle /\ LaterIdle

SpecTier == InitTier /\ [][TierNext]_vars

\* C12: for every score from 0 to 100 determineLevel returns exactly one
\* tier, the highest whose lower bound is at most the score, and
\* calculateMonetaryReward returns the amount of that same tier.
C12_LevelAndRewardAgreeWithTierTable ==
    /\ Cardinality({t \in TierTable :
            /\ t.min * 100 <= score
            /\ \A u \in TierTable : u.min * 100 <= score => u.min <= t.min}) = 1
    /\ level \notin {"none", "off"} => level = TierOf(score).name
    /\ monetary_reward # -1 => monetary_reward = TierOf(score).amount
    /\ (level \notin {"none", "off"} /\ monetary_reward # -1) =>
          \E t \in TierTable : t.name = level /\ t.amount = monetary_reward

\* A score of 84.99 is Gold and worth 6000.
C12_Witness ==
    /\ score = 8499
    /\ level = "Gold"
    /\ monetary_reward = 6000

\* ---------------------------------------------------------------------
\* DataCombiner.combineRepositoryMetrics with its author collections
\* (src/src/data-processor/offchain/data_combiner.py).
\* ---------------------------------------------------------------------

\* How many repository records one call combines.
MaxCombined == 2

\* CommitAuthor(login, count).
CommitAuthor(login, count) == [login |-> login, count |-> count]

\* commit_authors[login] = count: a later count replaces the earlier ones
\* instead of being added to them (mutant).
counterAdd_Overwrite(counter, login, count) ==
    IF \E k \in 1..Len(counter) : counter[k].login = login
    THEN [k \in 1..Len(counter) |->
            IF counter[k].login = login
            THEN CommitAuthor(login, count)
            ELSE counter[k]]
    ELSE Append(counter, CommitAuthor(login, count))

\* commit_authors[login] += count on a Counter, kept as the sequence of its
\* items in insertion order: a key already present keeps its place.
counterAdd(counter, login, count) ==
    IF \E k \in 1..Len(counter) : counter[k].login = login
    THEN [k \in 1..Len(counter) |->
            IF counter[k].login = login
            THEN CommitAuthor(login, counter[k].count + count)
            ELSE counter[k]]
    ELSE Append(counter, CommitAuthor(login, count))

\* Lines 58-59: the loop over repo_metrics.commits.authors.
RECURSIVE addAuthors(_, _)
addAuthors(counter, authors) ==
    IF authors = <<>> THEN counter
    ELSE addAuthors(counterAdd(counter, Head(authors).login, Head(authors).count),
                    Tail(authors))

\* The elements of a list, as set.update(list) takes them.
Elements(list) == {list[k] : k \in 1..Len(list)}

\* Lines 39-52: the empty containers and the zeroed counters.
emptyAggregation ==
    [commit_authors |-> <<>>,
     pr_authors |-> {},
     reviewers |-> {},
     issue_participants |-> {},
     total_commits |-> 0,
     total_open_prs |-> 0,
     total_merged_prs |-> 0,
     total_closed_prs |-> 0,
     total_reviews |-> 0,
     total_open_issues |-> 0,
     total_closed_issues |-> 0]

\* Lines 55-75: one iteration of the loop over repositories_metrics.
aggregate(acc, repo_metrics) ==
    [acc EXCEPT
        !.total_commits = @ + repo_metrics.commits.count,
        !.commit_authors = addAuthors(@, repo_metrics.commits.authors),
        !.total_open_prs = @ + repo_metrics.pull_requests.open,
        !.total_merged_prs = @ + repo_metrics.pull_requests.merged,
        !.total_closed_prs = @ + repo_metrics.pull_requests.closed,
        !.pr_authors = @ \cup Elements(repo_metrics.pull_requests.authors),
        !.total_reviews = @ + repo_metrics.reviews.count,
        !.reviewers = @ \cup Elements(repo_metrics.reviews.authors),
        !.total_open_issues = @ + repo_metrics.issues.open,
        !.total_closed_issues = @ + repo_metrics.issues.closed,
        !.issue_participants = @ \cup Elements(repo_metrics.issues.participants)]

\* DataCombiner._createCombinedCommitMetrics: one CommitAuthor per item of
\* the Counter, in the Counter's order.
createCombinedCommitMetrics(total_commits, commit_authors) ==
    [count |-> total_commits,
     authors |-> [k \in 1..Len(commit_authors) |->
                    CommitAuthor(commit_authors[k].login, commit_authors[k].count)]]

\* DataCombiner._createCombinedPullRequestMetrics. list(pr_authors) holds
\* each element of the set once, in an order the set decides: the list is
\* kept as the set of its elements.
createCombinedPullRequestMetrics(open_prs, merged_prs, closed_prs, pr_authors) ==
    [open |-> open_prs, merged |-> merged_prs, closed |-> closed_prs,
     authors |-> pr_authors]

\* Lines 78-92: the CombinedMetrics built after the loop (collection_date,
\* the time of the call, is left out).
createCombinedMetrics(acc, n) ==
    [commits |-> createCombinedCommitMetrics(acc.total_commits, acc.commit_authors),
     pull_requests |->
        createCombinedPullRequestMetrics(acc.total_open_prs, acc.total_merged_prs,
                                         acc.total_closed_prs, acc.pr_authors),
     reviews |-> [count |-> acc.total_reviews, authors |-> acc.reviewers],
     issues |-> [open |-> acc.total_open_issues,
                 closed |-> acc.total_closed_issues,
                 participants |-> acc.issue_participants],
     repositories_count |-> n]

\* DataCombiner._createEmptyCombinedMetrics.
createEmptyCombinedMetrics ==
    [commits |-> [count |-> 0, authors |-> <<>>],
     pull_requests |-> [open |-> 0, merged |-> 0, closed |-> 0, authors |-> {}],
     reviews |-> [count |-> 0, authors |-> {}],
     issues |-> [open |-> 0, closed |-> 0, participants |-> {}],
     repositories_count |-> 0]

\* The accumulators after the loop has run over all of ms.
RECURSIVE aggregateAll(_, _)
aggregateAll(acc, ms) ==
    IF ms = <<>> THEN acc ELSE aggregateAll(aggregate(acc, Head(ms)), Tail(ms))

\* DataCombiner.combineRepositoryMetrics, authors included.
combineRepositoryMetricsFull(ms) ==
    IF ms = <<>> THEN createEmptyCombinedMetrics
    ELSE createCombinedMetrics(aggregateAll(emptyAggregation, ms), Len(ms))

\* The repository records combined: what the collectors can return.
CommitSamples ==
    {[count |-> 0, authors |-> <<>>],
     [count |-> 5, authors |-> <<CommitAuthor("alice", 3), CommitAuthor("bob", 2)>>],
     [count |-> 1, authors |-> <<CommitAuthor("bob", 1)>>]}

PullRequestSamples ==
    {[open |-> 0, merged |-> 0, closed |-> 0, authors |-> <<>>],
     [open |-> 1, merged |-> 2, closed |-> 1, authors |-> <<"alice", "bob">>],
     [open |-> 0, merged |-> 1, closed |-> 0, authors |-> <<"carol">>]}

ReviewSamples ==
    {[count |-> 0, authors |-> <<>>],
     [count |-> 2, authors |-> <<"bob">>]}

IssueSamples ==
    {[open |-> 0, closed |-> 0, participants |-> <<>>],
     [open |-> 1, closed |-> 3, participants |-> <<"carol", "alice">>]}

RepositoryMetricsSamples ==
    [commits : CommitSamples, pull_requests : PullRequestSamples,
     reviews : ReviewSamples, issues : IssueSamples]

CombinerInit ==
    /\ metrics_list \in UNION {[1..n -> RepositoryMetricsSamples] : n \in 0..MaxCombined}
    /\ cb_i = 0
    /\ cb_acc = [absent |-> "None"]
    /\ combined = NotCombined
    /\ cb_pc = "call"

\* Lines 34-52: the empty list returns at once, any other list starts the
\* loop with empty containers.
CombineBegin ==
    /\ cb_pc = "call"
    /\ IF metrics_list = <<>>
       THEN /\ combined' = createEmptyCombinedMetrics
            /\ cb_pc' = "returned"
            /\ UNCHANGED cb_acc
       ELSE /\ cb_acc' = emptyAggregation
            /\ cb_pc' = "loop"
            /\ UNCHANGED combined
    /\ UNCHANGED <<metrics_list, cb_i, notCombinerVars>>

\* Lines 55-75: the next repository is added to the accumulators.
CombineRepository ==
    /\ cb_pc = "loop"
    /\ cb_i < Len(metrics_list)
    /\ cb_acc' = aggregate(cb_acc, metrics_list[cb_i + 1])
    /\ cb_i' = cb_i + 1
    /\ UNCHANGED <<metrics_list, combined, cb_pc, notCombinerVars>>

\* Lines 78-94: the loop is over, the CombinedMetrics is built and returned.
CombineReturn ==
    /\ cb_pc = "loop"
    /\ cb_i = Len(metrics_list)
    /\ combined' = createCombinedMetrics(cb_acc, Len(metrics_list))
    /\ cb_pc' = "returned"
    /\ UNCHANGED <<metrics_list, cb_i, cb_acc, notCombinerVars>>

CombinerNext == CombineBegin \/ CombineRepository \/ CombineReturn

InitCombiner == CombinerInit /\ CollectIdle /\ RewardsIdle /\ EventsIdle /\ LaterIdle

SpecCombiner == InitCombiner /\ [][CombinerNext]_vars

\* The sum of one counter over the repositories of ms.
TotalOf(ms, counter(_)) == SumOver([i \in 1..Len(ms) |-> counter(ms[i])], Len(ms))

\* The commits of one login in one repository's author list.
LoginCommits(authors, login) ==
    SumOver([k \in 1..Len(authors) |->
                IF authors[k].login = login THEN authors[k].count ELSE 0],
            Len(authors))

\* The logins with an entry in some repository's commit author list.
CommitLogins(ms) ==
    UNION {{ms[i].commits.authors[k].login : k \in 1..Len(ms[i].commits.authors)} :
           i \in 1..Len(ms)}

\* A combined record with its commit author list taken as a set of entries.
TotalsOf(r) ==
    [r EXCEPT !.commits.authors = {r.commits.authors[k] : k \in 1..Len(r.commits.authors)}]

\* ms in the order p.
Permuted(ms, p) == [i \in 1..Len(ms) |-> ms[p[i]]]

\* C15: what combineRepositoryMetrics returns has counters equal to the
\* sums of the repositories' counters, one commit author entry per login
\* whose count is the sum of that login's counts over all repositories,
\* author and participant collections equal to the unions, and
\* repositories_count equal to the length of the list; every permutation of
\* the list gives the same totals; the empty list gives all zeros and
\* repositories_count = 0.
C15_CombinedTotals ==
    cb_pc = "returned" =>
        LET ms == metrics_list
            r == combined
            authors == r.commits.authors
        IN  /\ r.commits.count = TotalOf(ms, LAMBDA m : m.commits.count)
            /\ r.pull_requests.open = TotalOf(ms, LAMBDA m : m.pull_requests.open)
            /\ r.pull_requests.merged = TotalOf(ms, LAMBDA m : m.pull_requests.merged)
            /\ r.pull_requests.closed = TotalOf(ms, LAMBDA m : m.pull_requests.closed)
            /\ r.reviews.count = TotalOf(ms, LAMBDA m : m.reviews.count)
            /\ r.issues.open = TotalOf(ms, LAMBDA m : m.issues.open)
            /\ r.issues.closed = TotalOf(ms, LAMBDA m : m.issues.closed)
            /\ \A j, k \in 1..Len(authors) : authors[j].login = authors[k].login => j = k
            /\ {authors[k].login : k \in 1..Len(authors)} = CommitLogins(ms)
            /\ \A k \in 1..Len(authors) :
                  authors[k].count =
                      TotalOf(ms, LAMBDA m : LoginCommits(m.commits.authors, authors[k].login))
            /\ r.pull_requests.authors =
                  UNION {Elements(ms[i].pull_requests.authors) : i \in 1..Len(ms)}
            /\ r.reviews.authors =
                  UNION {Elements(ms[i].reviews.authors) : i \in 1..Len(ms)}
            /\ r.issues.participants =
                  UNION {Elements(ms[i].issues.participants) : i \in 1..Len(ms)}
            /\ r.repositories_count = Len(ms)
            /\ ms # <<>> =>
                  \A p \in Permutations(1..Len(ms)) :
                      TotalsOf(combineRepositoryMetricsFull(Permuted(ms, p))) = TotalsOf(r)
            /\ ms = <<>> =>
                  /\ r.commits = [count |-> 0, authors |-> <<>>]
                  /\ r.pull_requests.authors = {}
                  /\ r.repositories_count = 0

\* Two different repositories were combined: bob's 2 and 1 commits became
\* one entry of 3, and the pull request authors of both are there.
C15_Witness ==
    /\ cb_pc = "returned"
    /\ Len(metrics_list) = 2
    /\ metrics_list[1].commits.count = 5
    /\ metrics_list[2].commits.count = 1
    /\ combined.commits.count = 6
    /\ combined.commits.authors = <<CommitAuthor("alice", 3), CommitAuthor("bob", 3)>>
    /\ combined.pull_requests.authors = {"alice", "bob", "carol"}

\* ---------------------------------------------------------------------
\* EventQueue (src/src/events/queue.py).
\* ---------------------------------------------------------------------

\* How many events are enqueued on one queue.
MaxEvents == 3

\* Line 31: the id enqueue_event builds from the pull request number (the
\* events of one run belong to one repository).
event_id_of(number) == <<"event", "repo", number>>

EventIds == {event_id_of(number) : number \in 1..MaxEvents}

\* list.remove(x): the first occurrence goes.
RECURSIVE remove(_, _)
remove(list, x) ==
    IF list = <<>> THEN <<>>
    ELSE IF Head(list) = x THEN Tail(list)
    ELSE <<Head(list)>> \o remove(Tail(list), x)

\* LREM key 0 x: every occurrence goes.
lrem(list, x) == SelectSeq(list, LAMBDA e : e # x)

\* list without its last n elements.
DropLast(list, n) == SubSeq(list, 1, Len(list) - n)

QueueInit ==
    /\ redis \in BOOLEAN
    /\ queue = <<>>
    /\ processing = <<>>
    /\ status = [id \in EventIds |-> "absent"]
    /\ enqueued = <<>>
    /\ delivered = <<>>
    /\ completions = {}
    /\ last_call = [op |-> "init"]

\* enqueue_event, called with a pull request not enqueued before: the event
\* hash is stored with status "queued"; LPUSH puts the id at the left end of
\* the Redis list, list.append at the right end of self.queue.
EnqueueEvent ==
    \E number \in 1..MaxEvents :
        LET event_id == event_id_of(number)
        IN  /\ last_call.op # "off"
            /\ \A k \in 1..Len(enqueued) : enqueued[k] # event_id
            /\ status' = [status EXCEPT ![event_id] = "queued"]
            /\ queue' = IF redis THEN <<event_id>> \o queue ELSE Append(queue, event_id)
            /\ enqueued' = Append(enqueued, event_id)
            /\ last_call' = [op |-> "enqueue", returned |-> event_id]
            /\ UNCHANGED <<redis, processing, delivered, completions, notQueueVars>>

\* dequeue_event. In memory (lines 58-70) list.pop() takes the right end of
\* self.queue. With Redis (lines 73-106) every turn of the loop RPOPs the
\* right end of the list; a turn in which pipe.execute() raises has taken
\* its id off the list already and `continue`s to the next turn, so `lost`
\* ids can be gone before one is returned or the list is found empty.
DequeueEvent ==
    /\ last_call.op # "off"
    /\ \E lost \in 0..(IF redis THEN Len(queue) ELSE 0) :
        LET left == DropLast(queue, lost)
        IN  IF left = <<>>
            THEN /\ queue' = left
                 /\ last_call' = [op |-> "dequeue", returned |-> "None"]
                 /\ UNCHANGED <<processing, delivered>>
            ELSE LET event_id == left[Len(left)]
                 IN  /\ queue' = DropLast(left, 1)
                     /\ processing' = IF redis THEN <<event_id>> \o processing
                                      ELSE Append(processing, event_id)
                     /\ delivered' = Append(delivered, event_id)
                     /\ last_call' = [op |-> "dequeue", returned |-> event_id]
    /\ UNCHANGED <<redis, status, enqueued, completions, notQueueVars>>

\* complete_event for an event that was enqueued: the status is set and the
\* id is taken off the processing list; the queue itself is not touched.
CompleteEvent ==
    \E event_id \in EventIds, success \in BOOLEAN :
        /\ last_call.op # "off"
        /\ \E k \in 1..Len(enqueued) : enqueued[k] = event_id
        /\ status' = [status EXCEPT ![event_id] =
                         IF success THEN "completed" ELSE "failed"]
        /\ processing' = IF redis THEN lrem(processing, event_id)
                         ELSE remove(processing, event_id)
        /\ completions' = completions \cup {event_id}
        /\ last_call' = [op |-> "complete", returned |-> "None"]
        /\ UNCHANGED <<redis, queue, enqueued, delivered, notQueueVars>>

QueueNext == EnqueueEvent \/ DequeueEvent \/ CompleteEvent

InitQueue == QueueInit /\ CollectIdle /\ RewardsIdle /\ CombinerIdle /\ ProcessorIdle /\ LaterIdle

SpecQueue == InitQueue /\ [][QueueNext]_vars

\* C16: events are delivered in the order they were enqueued: the k-th event
\* a dequeue_event returns is the k-th event enqueued, and dequeue_event
\* returns None only when every event enqueued has been delivered, with
\* Redis and in memory alike.
C16_FifoDelivery ==
    /\ \A k \in 1..Len(delivered) : delivered[k] = enqueued[k]
    /\ (last_call.op = "dequeue" /\ last_call.returned = "None") =>
          delivered = enqueued

\* With Redis, as long as no id was lost to a raising pipe.execute(), the
\* events delivered are the first ones enqueued, in order.
RedisFifoUnlessLost ==
    (redis /\ Len(queue) + Len(delivered) = Len(enqueued)) =>
        \A k \in 1..Len(delivered) : delivered[k] = enqueued[k]

\* C17: no dequeue_event returns an event complete_event has been called
\* for.
C17_CompletedNeverDelivered ==
    [][delivered' # delivered =>
          delivered'[Len(delivered')] \notin completions]_vars

\* dequeue_event on a queue holding only one event, and that one completed,
\* returns None.
C17_CompletedOnlyEventGivesNone ==
    [][(/\ Len(queue) = 1
        /\ queue[1] \in completions
        /\ last_call'.op = "dequeue"
        /\ queue' # queue) => last_call'.returned = "None"]_vars

\* ---------------------------------------------------------------------
\* EventProcessor.process_event (src/src/events/processor.py).
\* ---------------------------------------------------------------------

\* DocumentationNeed.
DocumentationNeed == {"none", "minimal", "partial", "full"}

\* ChangeType: the members _determine_docs_to_generate looks at, and
\* "other" for the rest.
ChangeType == {"api", "ui", "config", "infra", "other"}

\* EventProcessor._determine_docs_to_generate.
determine_docs_to_generate(change_types, doc_need) ==
    IF doc_need = "full"
    THEN IF "api" \in change_types THEN <<"api", "guide", "tutorial">>
         ELSE IF "ui" \in change_types THEN <<"guide", "tutorial">>
         ELSE <<"guide">>
    ELSE IF doc_need = "partial"
    THEN IF "api" \in change_types THEN <<"api", "guide">>
         ELSE IF "ui" \in change_types THEN <<"guide">>
         ELSE IF \E ct \in {"config", "infra"} : ct \in change_types THEN <<"guide">>
         ELSE <<>>
    ELSE IF doc_need = "minimal"
    THEN IF "api" \in change_types THEN <<"api">>
         ELSE IF \E ct \in {"ui", "config"} : ct \in change_types THEN <<"guide">>
         ELSE <<>>
    ELSE <<>>

\* Whether `if docs_result` / `if tutorial_result` takes a result: None and
\* an empty result do not count.
produced(result) == result \notin {"None", "empty"}

\* Lines 73-74 and the results not yet assigned.
NoAnswers ==
    [analysis_result |-> [doc_needs |-> "unset", change_types |-> {}],
     docs_result |-> "None", tutorial_result |-> "None",
     review_result |-> "unset"]

\* The `if`s of lines 77-113, creating the pull request after every review,
\* approved or not (mutant).
stepAfter_NoApprovalGate(step, a) ==
    LET docs_to_generate ==
            determine_docs_to_generate(a.analysis_result.change_types,
                                       a.analysis_result.doc_needs)
        wants_docs == \E d \in {"api", "guide"} : d \in Elements(docs_to_generate)
        wants_tutorial == "tutorial" \in Elements(docs_to_generate)
        review_or_complete ==
            IF produced(a.docs_result) \/ produced(a.tutorial_result)
            THEN "review_content" ELSE "complete_event"
    IN  CASE step = "analyze_changes" ->
                IF a.analysis_result.doc_needs # "none"
                THEN IF wants_docs THEN "generate_documentation"
                     ELSE IF wants_tutorial THEN "create_tutorial"
                     ELSE review_or_complete
                ELSE "complete_event"
          [] step = "generate_documentation" ->
                IF wants_tutorial THEN "create_tutorial" ELSE review_or_complete
          [] step = "create_tutorial" -> review_or_complete
          [] step = "review_content" -> "create_documentation_pr"
          [] step = "create_documentation_pr" -> "complete_event"

\* The `if`s of lines 77-113: the call process_event makes next when the
\* call `step` has returned and the results so far are a.
stepAfter(step, a) ==
    LET docs_to_generate ==
            determine_docs_to_generate(a.analysis_result.change_types,
                                       a.analysis_result.doc_needs)
        wants_docs == \E d \in {"api", "guide"} : d \in Elements(docs_to_generate)
        wants_tutorial == "tutorial" \in Elements(docs_to_generate)
        review_or_complete ==
            IF produced(a.docs_result) \/ produced(a.tutorial_result)
            THEN "review_content" ELSE "complete_event"
    IN  CASE step = "analyze_changes" ->
                IF a.analysis_result.doc_needs # "none"
                THEN IF wants_docs THEN "generate_documentation"
                     ELSE IF wants_tutorial THEN "create_tutorial"
                     ELSE review_or_complete
                ELSE "complete_event"
          [] step = "generate_documentation" ->
                IF wants_tutorial THEN "create_tutorial" ELSE review_or_complete
          [] step = "create_tutorial" -> review_or_complete
          [] step = "review_content" ->
                IF a.review_result = "approved"
                THEN "create_documentation_pr" ELSE "complete_event"
          [] step = "create_documentation_pr" -> "complete_event"

\* One call process_event made and whether it raised.
Call(name, raised) == [call |-> name, raised |-> raised]

ProcessorInit ==
    /\ event \in {[id |-> id, data |-> "pull request"] : id \in EventIds}
    /\ answers = NoAnswers
    /\ calls = <<>>
    /\ pe_pc = "analyze_changes"
    /\ pe_result = "running"

\* A call inside the `try` raised: control goes to the `except` of line 120.
Raised(name) ==
    /\ calls' = Append(calls, Call(name, TRUE))
    /\ pe_pc' = "except"
    /\ UNCHANGED <<event, answers, pe_result, notProcessorVars>>

\* A call inside the `try` returned: its result is kept and the `if`s choose
\* the next call.
Returned(name, a) ==
    /\ calls' = Append(calls, Call(name, FALSE))
    /\ answers' = a
    /\ pe_pc' = stepAfter(name, a)
    /\ UNCHANGED <<event, pe_result, notProcessorVars>>

\* Line 68: commit_agent.analyze_changes.
AnalyzeChanges ==
    /\ pe_pc = "analyze_changes"
    /\ \/ Raised("analyze_changes")
       \/ \E doc_needs \in DocumentationNeed, change_types \in SUBSET ChangeType :
            Returned("analyze_changes",
                     [answers EXCEPT !.analysis_result =
                         [doc_needs |-> doc_needs, change_types |-> change_types]])

\* Lines 85-89: docs_agent.generate_documentation.
GenerateDocumentation ==
    /\ pe_pc = "generate_documentation"
    /\ \/ Raised("generate_documentation")
       \/ \E docs_result \in {"None", "empty", "docs"} :
            Returned("generate_documentation",
                     [answers EXCEPT !.docs_result = docs_result])

\* Lines 92-96: tutorial_agent.create_tutorial.
CreateTutorial ==
    /\ pe_pc = "create_tutorial"
    /\ \/ Raised("create_tutorial")
       \/ \E tutorial_result \in {"None", "empty", "tutorial"} :
            Returned("create_tutorial",
                     [answers EXCEPT !.tutorial_result = tutorial_result])

\* Lines 99-103: review_agent.review_content.
ReviewContent ==
    /\ pe_pc = "review_content"
    /\ \/ Raised("review_content")
       \/ \E review_result \in {"approved", "rejected"} :
            Returned("review_content",
                     [answers EXCEPT !.review_result = review_result])

\* Lines 106-112: create_documentation_pr, which re-raises whatever fails
\* inside it (lines 211-213).
CreateDocumentationPr ==
    /\ pe_pc = "create_documentation_pr"
    /\ \/ Raised("create_documentation_pr")
       \/ Returned("create_documentation_pr", answers)

\* Lines 117-118: queue.complete_event(event_id, success=True), the last
\* statement of the `try`: if it raises the `except` runs as for any other.
MarkCompleted ==
    /\ pe_pc = "complete_event"
    /\ \/ Raised("complete_event(success=True)")
       \/ /\ calls' = Append(calls, Call("complete_event(success=True)", FALSE))
          /\ pe_pc' = "done"
          /\ pe_result' = "returned"
          /\ UNCHANGED <<event, answers, notProcessorVars>>

\* The `except` returning without marking the event (mutant).
MarkFailed_Swallow ==
    /\ pe_pc = "except"
    /\ pe_pc' = "done"
    /\ pe_result' = "returned"
    /\ UNCHANGED <<event, answers, calls, notProcessorVars>>

\* Lines 120-122: queue.complete_event(event["id"], success=False) in the
\* `except`; an exception of this call is caught by nothing.
MarkFailed ==
    /\ pe_pc = "except"
    /\ \E raised \in BOOLEAN :
        /\ calls' = Append(calls, Call("complete_event(success=False)", raised))
        /\ pe_result' = IF raised THEN "raised" ELSE "returned"
    /\ pe_pc' = "done"
    /\ UNCHANGED <<event, answers, notProcessorVars>>

ProcessorNext ==
    \/ AnalyzeChanges
    \/ GenerateDocumentation
    \/ CreateTutorial
    \/ ReviewContent
    \/ CreateDocumentationPr
    \/ MarkCompleted
    \/ MarkFailed

InitProcessor == ProcessorInit /\ CollectIdle /\ RewardsIdle /\ CombinerIdle /\ QueueIdle /\ LaterIdle

SpecProcessor == InitProcessor /\ [][ProcessorNext]_vars

\* How often process_event called `name`.
Times(name) == Cardinality({k \in 1..Len(calls) : calls[k].call = name})

\* The place of the first call of `name` among the calls, 0 if there is none.
FirstCall(name) ==
    IF Times(name) = 0 THEN 0
    ELSE CHOOSE k \in 1..Len(calls) :
            /\ calls[k].call = name
            /\ \A j \in 1..(k - 1) : calls[j].call # name

Steps ==
    {"analyze_changes", "generate_documentation", "create_tutorial",
     "review_content", "create_documentation_pr"}

\* Some step of the pipeline raised.
StepRaised == \E k \in 1..Len(calls) : calls[k].call \in Steps /\ calls[k].raised

\* Some call of queue.complete_event raised.
CompleteRaised == \E k \in 1..Len(calls) : calls[k].call \notin Steps /\ calls[k].raised

C19_StepsGatedInOrder ==
    /\ \A name \in {"generate_documentation", "create_tutorial"} :
          Times(name) > 0 =>
              /\ FirstCall("analyze_changes") \in 1..(FirstCall(name) - 1)
              /\ ~calls[FirstCall("analyze_changes")].raised
              /\ answers.analysis_result.doc_needs # "none"
    /\ Times("review_content") > 0 =>
          /\ produced(answers.docs_result) \/ produced(answers.tutorial_result)
          /\ \E name \in {"generate_documentation", "create_tutorial"} :
                FirstCall(name) \in 1..(FirstCall("review_content") - 1)
    /\ Times("create_documentation_pr") > 0 =>
          /\ FirstCall("review_content") \in 1..(FirstCall("create_documentation_pr") - 1)
          /\ ~calls[FirstCall("review_content")].raised
          /\ answers.review_result = "approved"
    /\ \A name \in Steps : Times(name) <= 1
    /\ (/\ pe_pc = "done"
        /\ \/ answers.analysis_result.doc_needs = "none"
           \/ answers.review_result = "rejected") =>
          /\ Times("create_documentation_pr") = 0
          /\ Times("complete_event(success=True)") = 1
          /\ Call("complete_event(success=True)", FALSE) \in Elements(calls) =>
                /\ Times("complete_event(success=False)") = 0
                /\ pe_result = "returned"

\* A review rejected what was generated: no pull request, event completed.
C19_Witness ==
    /\ pe_pc = "done"
    /\ answers.review_result = "rejected"
    /\ Times("generate_documentation") = 1
    /\ Times("create_documentation_pr") = 0
    /\ calls[Len(calls)] = Call("complete_event(success=True)", FALSE)

\* No documentation was needed: nothing generated, event completed.
C19_WitnessNoDocsNeeded ==
    /\ pe_pc = "done"
    /\ answers.analysis_result.doc_needs = "none"
    /\ calls = <<Call("analyze_changes", FALSE),
                 Call("complete_event(success=True)", FALSE)>>

\* ---------------------------------------------------------------------
\* Further properties of collectRepositoryData (SpecOffchain).
\* ---------------------------------------------------------------------

\* C21: the combiner is handed exactly one RepositoryMetrics per input
\* repository name, in input order, whatever happened to each repository
\* (missing, an exception while processing it, an exception raised by the
\* existence check itself); so repositories_count equals the number of
\* names given.
C21_OneRecordPerRepositoryName ==
    /\ off_pc = "repo" => Len(repositories_metrics) = repo_idx - 1
    /\ \A i \in 1..Len(repositories_metrics) :
          repositories_metrics[i].repository_name = repository_names[i]
    /\ off_pc = "done" =>
          combined_metrics.repositories_count = Len(repository_names)

\* Every repository that reached a record has one, in input order among the
\* records: the records never outnumber the repositories begun.
RecordsNeverOutnumberRepositories ==
    /\ Len(repositories_metrics) <= repo_idx
    /\ Len(repositories_metrics) = successful_collections
    /\ off_pc = "done" =>
          combined_metrics.repositories_count = successful_collections

\* ---------------------------------------------------------------------
\* The date filters of the pull request, issue and review collectors
\* (src/src/data-processor/offchain/collector/).
\* ---------------------------------------------------------------------

\* How many records one collector loop runs over.
MaxItems == 2

\* datetime.isoformat() + "Z" on a time of the model's clock: the time
\* written with two decimal digits, most significant first (the "Z" that
\* ends every timestamp string is left out).
isoformat(t) == <<t \div 10, t % 10>>

\* DateRange.to_iso_format.
to_iso_format(dr) == [since |-> isoformat(dr.start_date), until |-> isoformat(dr.end_date)]

\* a <= b on Python strings: the first differing character decides, a proper
\* prefix is smaller.
RECURSIVE strLeq(_, _)
strLeq(a, b) ==
    IF a = <<>> THEN TRUE
    ELSE IF b = <<>> THEN FALSE
    ELSE IF Head(a) # Head(b) THEN Head(a) < Head(b)
    ELSE strLeq(Tail(a), Tail(b))

\* A timestamp field that is None, missing or empty.
NoTimestamp == <<>>

\* A "user" that is None or has no login.
NoLogin == "None"

\* The logins a record adds to a set: `if r.get("user") and r["user"].get("login")`.
loginOf(r) == IF r.user = NoLogin THEN {} ELSE {r.user}

\* PullRequestCollector._isPullRequestInDateRange with `<` for the upper
\* bound (mutant).
isPullRequestInDateRange_UntilExclusive(pr, since, until) ==
    IF pr.created_at = NoTimestamp THEN FALSE
    ELSE strLeq(since, pr.created_at) /\ strLeq(pr.created_at, until)
            /\ pr.created_at # until

\* PullRequestCollector._isPullRequestInDateRange.
isPullRequestInDateRange(pr, since, until) ==
    IF pr.created_at = NoTimestamp THEN FALSE
    ELSE strLeq(since, pr.created_at) /\ strLeq(pr.created_at, until)

\* pull_request.py lines 74-77: the counters and the author set before the loop.
NoPullRequests == [open |-> 0, merged |-> 0, closed |-> 0, authors |-> {}]

\* pull_request.py lines 81-96: one iteration of the loop over pulls_data.
processPullRequest(acc, pr, dr) ==
    LET iso == to_iso_format(dr)
    IN  IF ~isPullRequestInDateRange(pr, iso.since, iso.until) THEN acc
        ELSE LET with_author == [acc EXCEPT !.authors = @ \cup loginOf(pr)]
             IN  IF pr.state = "open"
                 THEN [with_author EXCEPT !.open = @ + 1]
                 ELSE IF pr.merged_at # NoTimestamp
                 THEN [with_author EXCEPT !.merged = @ + 1]
                 ELSE [with_author EXCEPT !.closed = @ + 1]

\* The date ranges collected for and the timestamps records carry: before,
\* at and after the bounds.
DateRanges == {[start_date |-> 9, end_date |-> 20], [start_date |-> 8, end_date |-> 9]}

Timestamps == {NoTimestamp, <<0, 8>>, <<0, 9>>, <<2, 0>>}

\* The pull requests GET /pulls?state=all can list.
PullRequestRecords ==
    [created_at : Timestamps, state : {"open", "closed"},
     merged_at : {NoTimestamp, <<2, 0>>}, user : {NoLogin, "alice"}]

\* No per-pull-request fetch was made.
NoFetch == [failure |-> "off", fetched |-> <<>>]

PullsInit ==
    /\ collector = "pulls"
    /\ date_range \in DateRanges
    /\ raw_data \in UNION {[1..n -> PullRequestRecords] : n \in 0..MaxItems}
    /\ dc_i = 0
    /\ tally = NoPullRequests
    /\ last_fetch = NoFetch
    /\ dc_pc = "loop"

\* _processPullRequestData: the next pull request of pulls_data.
ProcessPullRequest ==
    /\ collector = "pulls"
    /\ dc_pc = "loop"
    /\ dc_i < Len(raw_data)
    /\ tally' = processPullRequest(tally, raw_data[dc_i + 1], date_range)
    /\ dc_i' = dc_i + 1
    /\ UNCHANGED <<collector, date_range, raw_data, last_fetch, dc_pc, notDateVars>>

\* The loop of a collector is over: the metrics are returned.
ReturnMetrics ==
    /\ dc_pc = "loop"
    /\ dc_i = Len(raw_data)
    /\ dc_pc' = "returned"
    /\ UNCHANGED <<collector, date_range, raw_data, dc_i, tally, last_fetch, notDateVars>>

\* IssueCollector._isPullRequest taking nothing for a pull request (mutant).
isPullRequest_Never(issue) == FALSE

\* IssueCollector._isPullRequest: `"pull_request" in issue`.
isPullRequest(issue) == issue.pull_request

\* IssueCollector._isIssueInDateRange.
isIssueInDateRange(issue, since, until) ==
    IF issue.created_at = NoTimestamp THEN FALSE
    ELSE strLeq(since, issue.created_at) /\ strLeq(issue.created_at, until)

\* issue.py lines 74-76: the counters and the participant set before the loop.
NoIssues == [open |-> 0, closed |-> 0, participants |-> {}]

\* issue.py lines 80-97: one iteration of the loop over issues_data.
processIssue(acc, issue, dr) ==
    LET iso == to_iso_format(dr)
    IN  IF isPullRequest(issue) THEN acc
        ELSE IF ~isIssueInDateRange(issue, iso.since, iso.until) THEN acc
        ELSE LET with_creator == [acc EXCEPT !.participants = @ \cup loginOf(issue)]
             IN  IF issue.state = "open"
                 THEN [with_creator EXCEPT !.open = @ + 1]
                 ELSE [with_creator EXCEPT !.closed = @ + 1]

\* The records GET /issues?state=all can list: issues, and pull requests
\* with their "pull_request" key.
IssueRecords ==
    [created_at : Timestamps, pull_request : BOOLEAN,
     state : {"open", "closed"}, user : {NoLogin, "bob"}]

IssuesInit ==
    /\ collector = "issues"
    /\ date_range \in DateRanges
    /\ raw_data \in UNION {[1..n -> IssueRecords] : n \in 0..MaxItems}
    /\ dc_i = 0
    /\ tally = NoIssues
    /\ last_fetch = NoFetch
    /\ dc_pc = "loop"

\* _processIssueData: the next record of issues_data.
ProcessIssue ==
    /\ collector = "issues"
    /\ dc_pc = "loop"
    /\ dc_i < Len(raw_data)
    /\ tally' = processIssue(tally, raw_data[dc_i + 1], date_range)
    /\ dc_i' = dc_i + 1
    /\ UNCHANGED <<collector, date_range, raw_data, last_fetch, dc_pc, notDateVars>>

\* ReviewCollector._getReviewsForPullRequest letting the exception of
\* makePaginatedRequest out: collectReviewData's handler then returns the
\* zero record (mutant).
getReviewsForPullRequest_Propagates(fetch) ==
    IF fetch.failure = "raise" THEN [kind |-> "raise", data |-> <<>>]
    ELSE [kind |-> "data", data |-> fetch.fetched]

\* ReviewCollector._getReviewsForPullRequest, given how makePaginatedRequest
\* ended: "none" (every page answered), "break" (a page was answered 404,
\* 5xx or not at all and the pages before it are returned), "raise" (a page
\* was answered 403); fetched holds the reviews of the pages received.
getReviewsForPullRequestData(fetch) ==
    IF fetch.failure = "raise" THEN [kind |-> "data", data |-> <<>>]
    ELSE [kind |-> "data", data |-> fetch.fetched]

\* ReviewCollector._filterReviewsByDateRange.
filterReviewsByDateRange(reviews, dr) ==
    LET iso == to_iso_format(dr)
    IN  SelectSeq(reviews, LAMBDA review :
            /\ review.submitted_at # NoTimestamp
            /\ strLeq(iso.since, review.submitted_at)
            /\ strLeq(review.submitted_at, iso.until))

\* review.py lines 48-49: the count and the reviewer set before the loop.
NoReviews == [count |-> 0, reviewers |-> {}]

\* review.py lines 51-62: one iteration of the loop over pulls_data, or the
\* zero record of the handler of collectReviewData.
processReviews(acc, fetch, dr) ==
    LET pr_reviews == getReviewsForPullRequestData(fetch)
    IN  IF pr_reviews.kind = "raise"
        THEN [ctl |-> "return", metrics |-> NoReviews]
        ELSE LET filtered_reviews == filterReviewsByDateRange(pr_reviews.data, dr)
             IN  [ctl |-> "loop",
                  metrics |->
                     [count |-> acc.count + Len(filtered_reviews),
                      reviewers |-> acc.reviewers \cup
                          UNION {loginOf(filtered_reviews[k]) :
                                 k \in 1..Len(filtered_reviews)}]]

\* The reviews GET /pulls/<number>/reviews can list.
ReviewRecords ==
    [submitted_at : Timestamps, user : {"carol"}]
        \cup {[submitted_at |-> <<0, 9>>, user |-> NoLogin]}

\* How the fetch of one pull request's reviews can end.
ReviewFetches ==
    [failure : {"none", "break", "raise"},
     fetched : UNION {[1..n -> ReviewRecords] : n \in 0..2}]

\* What _getAllPullRequests can return: pull requests numbered in list
\* order, created before, in or after the date range.
PullRequestLists ==
    UNION {{[i \in 1..n |-> [number |-> i, created_at |-> created[i]]] :
               created \in [1..n -> Timestamps \ {NoTimestamp}]} :
           n \in 0..MaxItems}

ReviewsInit ==
    /\ collector = "reviews"
    /\ date_range \in DateRanges
    /\ raw_data \in PullRequestLists
    /\ dc_i = 0
    /\ tally = NoReviews
    /\ last_fetch = NoFetch
    /\ dc_pc = "loop"

\* collectReviewData: the reviews of the next pull request of pulls_data are
\* fetched, filtered and counted.
ProcessPullRequestReviews ==
    /\ collector = "reviews"
    /\ dc_pc = "loop"
    /\ dc_i < Len(raw_data)
    /\ \E fetch \in ReviewFetches :
        LET r == processReviews(tally, fetch, date_range)
        IN  /\ last_fetch' = [failure |-> fetch.failure, fetched |-> fetch.fetched,
                              number |-> raw_data[dc_i + 1].number]
            /\ tally' = r.metrics
            /\ dc_pc' = IF r.ctl = "return" THEN "returned" ELSE "loop"
    /\ dc_i' = dc_i + 1
    /\ UNCHANGED <<collector, date_range, raw_data, notDateVars>>

DatesNext ==
    \/ ProcessPullRequest
    \/ ProcessIssue
    \/ ProcessPullRequestReviews
    \/ ReturnMetrics

InitDates == (PullsInit \/ IssuesInit \/ ReviewsInit) /\ EarlierIdle /\ AfterDatesIdle

SpecDates == InitDates /\ [][DatesNext]_vars

\* The time a timestamp string stands for.
TimeOf(stamp) == 10 * stamp[1] + stamp[2]

\* A timestamp field is present and its time lies in [since, until], both
\* bounds included.
WithinRange(stamp) ==
    /\ stamp # NoTimestamp
    /\ date_range.start_date <= TimeOf(stamp)
    /\ TimeOf(stamp) <= date_range.end_date

\* The records the loop has consumed whose created_at lies in the range.
CountedSoFar == {k \in 1..dc_i : WithinRange(raw_data[k].created_at)}

\* C22: a pull request is counted iff since <= created_at <= until (a record
\* without created_at never is), and each counted pull request is in exactly
\* one bucket: open if its state is open, else merged if it has a merge
\* timestamp, else closed; open + merged + closed is the number counted.
C22_PullRequestsCountedAndBucketed ==
    collector = "pulls" =>
        /\ tally.open = Cardinality({k \in CountedSoFar : raw_data[k].state = "open"})
        /\ tally.merged =
              Cardinality({k \in CountedSoFar :
                  raw_data[k].state # "open" /\ raw_data[k].merged_at # NoTimestamp})
        /\ tally.closed =
              Cardinality({k \in CountedSoFar :
                  raw_data[k].state # "open" /\ raw_data[k].merged_at = NoTimestamp})
        /\ tally.open + tally.merged + tally.closed = Cardinality(CountedSoFar)

\* Two pull requests, created at the lower and at the upper bound: one open
\* although merged_at is set, one closed and merged.
C22_Witness ==
    /\ collector = "pulls"
    /\ dc_pc = "returned"
    /\ \E j, k \in 1..Len(raw_data) :
          /\ raw_data[j].created_at = isoformat(date_range.start_date)
          /\ raw_data[j].state = "open" /\ raw_data[j].merged_at # NoTimestamp
          /\ raw_data[k].created_at = isoformat(date_range.end_date)
          /\ raw_data[k].state = "closed" /\ raw_data[k].merged_at # NoTimestamp
    /\ tally.open = 1 /\ tally.merged = 1 /\ tally.closed = 0

\* The issues proper among the records consumed, created within the range.
IssuesCountedSoFar == {k \in CountedSoFar : ~raw_data[k].pull_request}

\* C23: a record is counted iff it has no pull_request marker and its
\* created_at lies in [since, until]; a counted issue is open if its state
\* is open and closed otherwise, so open + closed is the number counted; the
\* participants are creators of counted issues only.
C23_IssuesCountedWithoutPullRequests ==
    collector = "issues" =>
        /\ tally.open = Cardinality({k \in IssuesCountedSoFar : raw_data[k].state = "open"})
        /\ tally.closed = Cardinality({k \in IssuesCountedSoFar : raw_data[k].state # "open"})
        /\ tally.open + tally.closed = Cardinality(IssuesCountedSoFar)
        /\ tally.participants =
              UNION {loginOf(raw_data[k]) : k \in IssuesCountedSoFar}

\* An issue and a pull request by bob, both created within the range: only
\* the issue is counted.
C23_Witness ==
    /\ collector = "issues"
    /\ dc_pc = "returned"
    /\ Len(raw_data) = 2
    /\ \A k \in 1..2 : WithinRange(raw_data[k].created_at)
    /\ raw_data[1].pull_request /\ raw_data[1].user = "bob"
    /\ ~raw_data[2].pull_request /\ raw_data[2].user = NoLogin
    /\ tally = [open |-> 0, closed |-> 1, participants |-> {}]

\* The reviews of a list submitted within the range.
ReviewsWithin(reviews) ==
    Cardinality({k \in 1..Len(reviews) : WithinRange(reviews[k].submitted_at)})

\* A step of the review loop.
ReviewStep == collector = "reviews" /\ dc_i' # dc_i

\* C24 as stated: the reviews are fetched for each pull request of the
\* complete list in list order, whatever its created_at; a review counts iff
\* its submitted_at lies in [since, until]; a fetch that failed contributes
\* no review and the loop goes on.
C24_FailedFetchContributesZero ==
    [][ReviewStep =>
          /\ dc_i' = dc_i + 1
          /\ last_fetch'.number = raw_data[dc_i'].number
          /\ dc_pc' = "loop"
          /\ tally'.count = tally.count +
                (IF last_fetch'.failure # "none" THEN 0
                 ELSE ReviewsWithin(last_fetch'.fetched))]_vars

\* C24, amended: as above, except that only a fetch that raised contributes
\* no review; a fetch that a 404, a 5xx or a network error stopped
\* contributes the reviews of the pages received before it.
C24_RaisedFetchContributesZero ==
    [][ReviewStep =>
          /\ dc_i' = dc_i + 1
          /\ last_fetch'.number = raw_data[dc_i'].number
          /\ dc_pc' = "loop"
          /\ tally'.count = tally.count +
                (IF last_fetch'.failure = "raise" THEN 0
                 ELSE ReviewsWithin(last_fetch'.fetched))]_vars

\* The review loop returns only after the last pull request of the list.
ReviewsFetchedForEveryPullRequest ==
    (collector = "reviews" /\ dc_pc = "returned") => dc_i = Len(raw_data)

\* The fetch for the first of two pull requests, one created before the
\* range, raised after a review submitted within the range had been
\* received: nothing is counted for it and the loop goes on.
C24_Witness ==
    /\ collector = "reviews"
    /\ Len(raw_data) = 2
    /\ ~WithinRange(raw_data[1].created_at)
    /\ dc_i = 1
    /\ dc_pc = "loop"
    /\ last_fetch.number = 1
    /\ last_fetch.failure = "raise"
    /\ ReviewsWithin(last_fetch.fetched) = 1
    /\ tally.count = 0

\* The last pull request, created outside the range, has two reviews, one of
\* them submitted within the range: it is counted.
C24_WitnessCounted ==
    /\ collector = "reviews"
    /\ dc_pc = "returned"
    /\ Len(raw_data) = 2
    /\ ~WithinRange(raw_data[2].created_at)
    /\ last_fetch.number = 2
    /\ last_fetch.failure = "none"
    /\ Len(last_fetch.fetched) = 2
    /\ ReviewsWithin(last_fetch.fetched) = 1
    /\ tally.count = 1

\* ------------------------------------------------------------ validator
\* OnchainDataValidator (data_validator.py) over the combined transaction
\* and receipt records, next to the legacy calculateTotalVolume
\* (scripts/lambda/onchain.py).  Amounts are whole numbers of yoctoNEAR: the
\* validator divides every term by YOCTO_NEAR_TO_NEAR before adding it, the
\* legacy function divides the sum once, and the volumes below are the sums
\* before that division.

MaxTransactions == 2
MaxDeposit == 2

\* A `deposit` entry: the key is missing ("absent"), null ("None"), a number
\* of yoctoNEAR ("num"), or a string float() rejects ("bad").
Deposit(kind, amount) == [kind |-> kind, amount |-> amount]
NoDeposit == Deposit("absent", 0)
Deposits ==
    {NoDeposit, Deposit("None", 0), Deposit("bad", 0)}
        \cup {Deposit("num", a) : a \in 1..MaxDeposit}

\* float(deposit): the number, or the exception it raises.
float(d) ==
    IF d.kind = "num" THEN [raised |-> "no", value |-> d.amount]
    ELSE IF d.kind = "None" THEN [raised |-> "TypeError", value |-> 0]
    ELSE [raised |-> "ValueError", value |-> 0]

\* Strings are sequences of pieces; what the code asks of a string (its
\* length, isalnum(), endswith('.near'), `contract in address`) is computed
\* from the pieces.
USDC_CONTRACT_ADDRESSES ==
    {"17208628f84f5d6ad33f0da3bbbeb27ffcb398eac501a31bd6ad2011e36133a1",
     "usdc.fakes.testnet"}

\* "h59" stands for 59 hexadecimal digits.
pieceLen(p) ==
    CASE p = "proj" -> 4
      [] p = "alice" -> 5
      [] p = "bob" -> 3
      [] p = ".near" -> 5
      [] p = "h59" -> 59
      [] p = "usdc.fakes.testnet" -> 18
      [] OTHER -> 64

pieceIsAlnum(p) == p \notin {".near", "usdc.fakes.testnet"}

strLen(t) == SumOver([k \in 1..Len(t) |-> pieceLen(t[k])], Len(t))
isalnum(t) == Len(t) > 0 /\ \A k \in 1..Len(t) : pieceIsAlnum(t[k])
endswithNear(t) == Len(t) > 0 /\ t[Len(t)] = ".near"
containsContract(t) == \E k \in 1..Len(t) : t[k] \in USDC_CONTRACT_ADDRESSES

\* A JSON value found where an account name is expected: the key is missing,
\* null, a number, a list, or a string.
Json(kind, text) == [kind |-> kind, text |-> text]
Str(text) == Json("str", text)
Missing == Json("absent", <<>>)
isTruthy(v) == v.kind \in {"int", "list"} \/ (v.kind = "str" /\ v.text # <<>>)

\* The `args` of an action: missing, '', a string that is not JSON, a string
\* that starts with '{' and does not parse, a JSON object in a string, or an
\* object already decoded by the indexer (a dict).
Args(kind, receiver_id, account, sender_id) ==
    [kind |-> kind, receiver_id |-> receiver_id, account_id |-> account,
     sender_id |-> sender_id]
NoArgs == Args("absent", Missing, Missing, Missing)

Action(deposit, args) == [deposit |-> deposit, args |-> args]

Item(signer, predecessor, receiver, agg, has_actions, actions) ==
    [signer_account_id |-> signer, predecessor_account_id |-> predecessor,
     receiver_account_id |-> receiver, actions_agg |-> agg,
     has_actions |-> has_actions, actions |-> actions]

\* ---- _calculateTransactionVolume

\* The loop over item['actions'] of lines 119-122 from action k on: the
\* deposits added, and whether float() raised on the way.
RECURSIVE actionDeposits(_, _)
actionDeposits(actions, k) ==
    IF k > Len(actions) THEN [raised |-> FALSE, sum |-> 0]
    ELSE LET d == actions[k].deposit
         IN  IF d.kind \in {"absent", "None"}
             THEN actionDeposits(actions, k + 1)
             ELSE IF float(d).raised # "no"
             THEN [raised |-> TRUE, sum |-> 0]
             ELSE LET rest == actionDeposits(actions, k + 1)
                  IN  [raised |-> rest.raised, sum |-> float(d).value + rest.sum]

\* _extractUsdcAmount on the args of the model's actions: they carry no
\* amount, so the answer is 0, unless args is a dict, on which
\* args_string.startswith raises AttributeError, which nothing catches.
usdcRaises(item) ==
    /\ item.receiver_account_id.kind = "str"
    /\ containsContract(item.receiver_account_id.text)
    /\ item.has_actions
    /\ \E k \in 1..Len(item.actions) : item.actions[k].args.kind = "dict"

\* One iteration of `for item in data`, lines 107-143: what it adds to
\* total_near_volume, and whether an exception leaves the function.
volumeOfItem(item) ==
    LET agg == IF item.actions_agg.kind = "absent"
               THEN [raised |-> "no", value |-> 0]
               ELSE float(item.actions_agg)
        acts == IF item.has_actions THEN actionDeposits(item.actions, 1)
                ELSE [raised |-> FALSE, sum |-> 0]
    IN  IF agg.raised # "no"
        THEN [raised |-> FALSE, near |-> 0]
        ELSE IF acts.raised
        THEN [raised |-> FALSE, near |-> agg.value + acts.sum]
        ELSE [raised |-> usdcRaises(item), near |-> agg.value + acts.sum]

NotComputed == [computed |-> "no"]

RECURSIVE calculateTransactionVolumeFrom(_, _, _)
calculateTransactionVolumeFrom(data, k, acc) ==
    IF k > Len(data)
    THEN [computed |-> "yes", raised |-> FALSE,
          total_volume_near |-> acc, transaction_count |-> Len(data)]
    ELSE LET v == volumeOfItem(data[k])
         IN  IF v.raised
             THEN [computed |-> "yes", raised |-> TRUE,
                   total_volume_near |-> 0, transaction_count |-> 0]
             ELSE calculateTransactionVolumeFrom(data, k + 1, acc + v.near)

calculateTransactionVolume(data) == calculateTransactionVolumeFrom(data, 1, 0)

\* ---- calculateTotalVolume (legacy)

RECURSIVE legacyDeposits(_, _)
legacyDeposits(actions, k) ==
    IF k > Len(actions) THEN [raised |-> FALSE, sum |-> 0]
    ELSE LET d == actions[k].deposit
         IN  IF d.kind \in {"absent", "None"}
             THEN legacyDeposits(actions, k + 1)
             ELSE IF float(d).raised # "no"
             THEN [raised |-> TRUE, sum |-> 0]
             ELSE LET rest == legacyDeposits(actions, k + 1)
                  IN  [raised |-> rest.raised, sum |-> float(d).value + rest.sum]

RECURSIVE calculateTotalVolumeFrom(_, _, _)
calculateTotalVolumeFrom(transactions, k, acc) ==
    IF k > Len(transactions)
    THEN [computed |-> "yes", raised |-> FALSE, totalVolume |-> acc]
    ELSE LET tx == transactions[k]
             raise == [computed |-> "yes", raised |-> TRUE, totalVolume |-> 0]
         IN  IF tx.actions_agg.kind # "absent"
             THEN IF float(tx.actions_agg).raised # "no"
                  THEN raise
                  ELSE calculateTotalVolumeFrom(transactions, k + 1,
                           acc + float(tx.actions_agg).value)
             ELSE IF tx.has_actions /\ tx.actions # <<>>
             THEN LET acts == legacyDeposits(tx.actions, 1)
                  IN  IF acts.raised THEN raise
                      ELSE calculateTotalVolumeFrom(transactions, k + 1,
                               acc + acts.sum)
             ELSE calculateTotalVolumeFrom(transactions, k + 1, acc)

calculateTotalVolume(transactions) == calculateTotalVolumeFrom(transactions, 1, 0)

\* ---- _calculateUniqueWalletMetrics

\* _extractWalletFromArgs: the string it returns ('' when it finds none), or
\* the AttributeError of args_string.startswith on a dict.
extractWalletFromArgs(args) ==
    IF args.kind = "dict" THEN [raised |-> TRUE, wallet |-> <<>>]
    ELSE IF args.kind # "json" THEN [raised |-> FALSE, wallet |-> <<>>]
    ELSE IF args.receiver_id.kind = "str"
    THEN [raised |-> FALSE, wallet |-> args.receiver_id.text]
    ELSE IF args.account_id.kind = "str"
    THEN [raised |-> FALSE, wallet |-> args.account_id.text]
    ELSE IF args.sender_id.kind = "str"
    THEN [raised |-> FALSE, wallet |-> args.sender_id.text]
    ELSE [raised |-> FALSE, wallet |-> <<>>]

\* `if '<key>' in item: ... unique_wallets.add(...)` for one of the three
\* account keys: ctl is "next" (go on with the item), "continue" (TypeError
\* of adding an unhashable list, caught by the loop).
addAccount(wallets, v, account) ==
    IF v.kind = "absent" \/ v = Str(account) \/ ~isTruthy(v)
    THEN [ctl |-> "next", wallets |-> wallets]
    ELSE IF v.kind = "list"
    THEN [ctl |-> "continue", wallets |-> wallets]
    ELSE [ctl |-> "next", wallets |-> wallets \cup {v}]

\* The loop over item['actions'] of lines 236-242 from action k on.
RECURSIVE addWalletsFromArgs(_, _, _, _)
addWalletsFromArgs(wallets, actions, k, account) ==
    IF k > Len(actions) THEN [ctl |-> "next", wallets |-> wallets]
    ELSE LET args == actions[k].args
         IN  IF args.kind \in {"absent", "empty"}
             THEN addWalletsFromArgs(wallets, actions, k + 1, account)
             ELSE LET w == extractWalletFromArgs(args)
                  IN  IF w.raised THEN [ctl |-> "raise", wallets |-> wallets]
                      ELSE IF w.wallet # <<>> /\ w.wallet # account
                      THEN addWalletsFromArgs(wallets \cup {Str(w.wallet)},
                                              actions, k + 1, account)
                      ELSE addWalletsFromArgs(wallets, actions, k + 1, account)

\* One iteration of `for item in data`, lines 216-246.
walletsOfItem(wallets, item, account) ==
    LET s == addAccount(wallets, item.signer_account_id, account)
        p == addAccount(s.wallets, item.predecessor_account_id, account)
        r == addAccount(p.wallets, item.receiver_account_id, account)
    IN  IF s.ctl = "continue" THEN s
        ELSE IF p.ctl = "continue" THEN p
        ELSE IF r.ctl = "continue" THEN r
        ELSE IF item.has_actions
        THEN addWalletsFromArgs(r.wallets, item.actions, 1, account)
        ELSE r

\* unique_wallets after the loop, or "raise".
RECURSIVE collectWallets(_, _, _, _)
collectWallets(wallets, data, k, account) ==
    IF k > Len(data) THEN [ctl |-> "next", wallets |-> wallets]
    ELSE LET w == walletsOfItem(wallets, data[k], account)
         IN  IF w.ctl = "raise" THEN w
             ELSE collectWallets(w.wallets, data, k + 1, account)

\* Variant: the 64-character form is not required to be alphanumeric only
\* and known contracts are not filtered.
isValidWalletAddress_AnyEnding(v) ==
    /\ v.kind = "str"
    /\ v.text # <<>>

isValidWalletAddress(v) ==
    /\ v.kind = "str"
    /\ v.text # <<>>
    /\ ~containsContract(v.text)
    /\ endswithNear(v.text) \/ (strLen(v.text) = 64 /\ isalnum(v.text))

\* The lists a Python set of these members can be iterated into.
ListsOf(S) ==
    {l \in [1..Cardinality(S) -> S] : \A a, b \in 1..Cardinality(S) :
                                          l[a] = l[b] => a = b}

\* ---- inputs

Accounts == {<<"proj", ".near">>}

Wallets ==
    {Missing, Json("None", <<>>), Json("int", <<>>), Json("list", <<>>),
     Str(<<>>), Str(<<"proj", ".near">>), Str(<<"alice", ".near">>),
     Str(<<"alice", "h59">>), Str(<<"bob">>), Str(<<"bob", "h59">>),
     Str(<<"17208628f84f5d6ad33f0da3bbbeb27ffcb398eac501a31bd6ad2011e36133a1">>),
     Str(<<"usdc.fakes.testnet">>),
     Str(<<"bob", "usdc.fakes.testnet", ".near">>)}

ArgsSamples ==
    {Args("empty", Missing, Missing, Missing),
     Args("text", Missing, Missing, Missing),
     Args("badjson", Missing, Missing, Missing),
     Args("dict", Missing, Missing, Missing),
     Args("json", Missing, Missing, Missing),
     Args("json", Str(<<"alice", ".near">>), Missing, Str(<<"bob", ".near">>)),
     Args("json", Json("int", <<>>), Str(<<"proj", ".near">>), Missing),
     Args("json", Str(<<>>), Missing, Str(<<"alice", ".near">>)),
     Args("json", Missing, Missing, Str(<<"usdc.fakes.testnet">>)),
     Args("json", Missing, Missing, Str(<<"bob">>))}

\* Records that differ in their deposits only.
ActionLists ==
    {<<>>, <<Action(Deposit("num", 1), NoArgs)>>,
     <<Action(Deposit("None", 0), NoArgs)>>,
     <<Action(Deposit("bad", 0), NoArgs)>>,
     <<Action(NoDeposit, NoArgs), Action(Deposit("num", MaxDeposit), NoArgs)>>,
     <<Action(Deposit("num", 1), NoArgs), Action(Deposit("bad", 0), NoArgs)>>}

VolumeItems ==
    {Item(Missing, Missing, Missing, agg, FALSE, <<>>) :
        agg \in Deposits}
    \cup {Item(Missing, Missing, Missing, agg, TRUE, acts) :
            agg \in Deposits, acts \in ActionLists}

\* Records that differ in their account names only.
WalletItems ==
    {Item(w, Missing, Missing, NoDeposit, FALSE, <<>>) : w \in Wallets}
    \cup {Item(Missing, Missing, w, NoDeposit, FALSE, <<>>) : w \in Wallets}
    \cup {Item(Str(<<"alice", ".near">>), w, Str(<<"alice", "h59">>),
               NoDeposit, FALSE, <<>>) :
            w \in {Str(<<"alice", ".near">>), Str(<<"bob", ".near">>),
                   Json("list", <<>>)}}
    \cup {Item(Missing, Missing, Missing, NoDeposit, TRUE,
               <<Action(NoDeposit, a)>>) : a \in ArgsSamples}
    \cup {Item(Missing, Missing, Str(<<"usdc.fakes.testnet">>),
               Deposit("num", 1), TRUE,
               <<Action(NoDeposit, Args("dict", Missing, Missing, Missing))>>)}

ListsUpTo(S, n) == UNION {[1..m -> S] : m \in 0..n}

\* ---- calls

ValidatorInit ==
    /\ vd_data \in ListsUpTo(VolumeItems, MaxTransactions)
                      \cup ListsUpTo(WalletItems, MaxTransactions)
    /\ vd_account \in Accounts
    /\ volume_metrics = NotComputed
    /\ totalVolume = NotComputed
    /\ wallet_metrics = NotComputed

CalculateTransactionVolume ==
    /\ volume_metrics = NotComputed
    /\ volume_metrics' = calculateTransactionVolume(vd_data)
    /\ UNCHANGED <<vd_data, vd_account, totalVolume, wallet_metrics,
                   notValidatorVars>>

CalculateTotalVolume ==
    /\ totalVolume = NotComputed
    /\ totalVolume' = calculateTotalVolume(vd_data)
    /\ UNCHANGED <<vd_data, vd_account, volume_metrics, wallet_metrics,
                   notValidatorVars>>

CalculateUniqueWalletMetrics ==
    /\ wallet_metrics = NotComputed
    /\ LET u == collectWallets({}, vd_data, 1, vd_account)
           valid == {w \in u.wallets : isValidWalletAddress(w)}
       IN  IF u.ctl = "raise"
           THEN wallet_metrics' = [computed |-> "yes", raised |-> TRUE,
                                   unique_wallets |-> 0,
                                   wallet_addresses |-> <<>>]
           ELSE \E valid_wallets \in ListsOf(valid) :
                    wallet_metrics' = [computed |-> "yes", raised |-> FALSE,
                                       unique_wallets |-> Len(valid_wallets),
                                       wallet_addresses |-> valid_wallets]
    /\ UNCHANGED <<vd_data, vd_account, volume_metrics, totalVolume,
                   notValidatorVars>>

ValidatorNext ==
    \/ CalculateTransactionVolume
    \/ CalculateTotalVolume
    \/ CalculateUniqueWalletMetrics

InitValidator == ValidatorInit /\ EarlierIdle /\ DatesIdle /\ AppIdle

SpecValidator == InitValidator /\ [][ValidatorNext]_vars

\* ---- claims

BothVolumesComputed ==
    /\ volume_metrics # NotComputed /\ ~volume_metrics.raised
    /\ totalVolume # NotComputed /\ ~totalVolume.raised

\* C25: the NEAR volume of the validator, in yoctoNEAR, takes for every
\* record either its actions_agg.deposit or, when that is absent, the sum of
\* its actions' deposits, never both, and so equals the sum the legacy
\* calculateTotalVolume computes on the same records.
C25_VolumeEqualsLegacy ==
    BothVolumesComputed =>
        volume_metrics.total_volume_near = totalVolume.totalVolume

\* What the validator computes instead: never less than the legacy sum, and
\* equal to it when no record carries both an aggregate and actions.
VolumeAtLeastLegacy ==
    BothVolumesComputed =>
        /\ volume_metrics.total_volume_near >= totalVolume.totalVolume
        /\ (\A k \in 1..Len(vd_data) :
                vd_data[k].actions_agg.kind = "absent" \/ ~vd_data[k].has_actions)
            => volume_metrics.total_volume_near = totalVolume.totalVolume

\* A record with actions_agg.deposit = 1 and one action of deposit 1 is
\* counted as 2 by the validator and as 1 by the legacy function.
VolumeCountedTwice ==
    /\ BothVolumesComputed
    /\ vd_data = <<Item(Missing, Missing, Missing, Deposit("num", 1), TRUE,
                        <<Action(Deposit("num", 1), NoArgs)>>)>>
    /\ volume_metrics.total_volume_near = 2
    /\ totalVolume.totalVolume = 1

WalletsReturned == wallet_metrics # NotComputed /\ ~wallet_metrics.raised

\* C26: the wallet list of _calculateUniqueWalletMetrics has no duplicates,
\* does not contain the analyzed account, contains no string that includes a
\* known contract address, contains only strings that end in '.near' or are
\* exactly 64 alphanumeric characters, and unique_wallets is its length.
C26_WalletListIsClean ==
    WalletsReturned =>
        LET l == wallet_metrics.wallet_addresses
        IN  /\ \A a, b \in 1..Len(l) : l[a] = l[b] => a = b
            /\ \A a \in 1..Len(l) :
                /\ l[a].kind = "str"
                /\ l[a].text # vd_account
                /\ ~containsContract(l[a].text)
                /\ \/ endswithNear(l[a].text)
                   \/ strLen(l[a].text) = 64 /\ isalnum(l[a].text)
            /\ wallet_metrics.unique_wallets = Len(l)

\* Two records name the same wallet, another is the contract in its
\* 64-character form, and the list holds the wallet once.
C26_Witness ==
    /\ WalletsReturned
    /\ Len(vd_data) = 2
    /\ vd_data[1].signer_account_id = Str(<<"alice", "h59">>)
    /\ vd_data[2].receiver_account_id = Str(<<"alice", "h59">>)
    /\ wallet_metrics.wallet_addresses = <<Str(<<"alice", "h59">>)>>

\* The analyzed account and a contract-bearing '.near' name are dropped.
C26_WitnessDropped ==
    /\ WalletsReturned
    /\ Len(vd_data) = 2
    /\ vd_data[1].signer_account_id = Str(vd_account)
    /\ vd_data[2].signer_account_id = Str(<<"bob", "usdc.fakes.testnet", ".near">>)
    /\ wallet_metrics.unique_wallets = 0

\* ------------------------------------------------ termination of the fetches
\* Every paginated fetch loop against an upstream that holds finitely many
\* records and answers every request with 200: the three loops of SpecPage
\* and the two of the lambda scripts, get_all (onchain_offchain_data.py) and
\* fetchTransactionData (onchain.py).

MaxUpstream == 3 * PerPage + 1

\* Past MaxRequests requests the log of requests, the page counter and the
\* list gathered are no longer told apart from what they were: no loop reads
\* them to decide whether to go on.  A loop that asks for the pages 1, 2, 3,
\* ... of MaxUpstream records reaches an empty page with fewer requests.
MaxRequests == MaxUpstream \div PerPage + 3

Ok == [status |-> 200, rate_phrase |-> FALSE]

Loops == Clients \cup {"get_all", "lambda fetchTransactionData"}

\* One iteration of the loop of get_all: it goes on until a page is empty.
get_all(pg, acc, resp, data) ==
    IF resp.status = RequestException
    THEN [ctl |-> "raise", page |-> pg, all_data |-> acc, msg |-> "Network error"]
    ELSE IF resp.status # 200
    THEN [ctl |-> "break", page |-> pg, all_data |-> acc, msg |-> ""]
    ELSE IF data = <<>>
    THEN [ctl |-> "break", page |-> pg, all_data |-> acc, msg |-> ""]
    ELSE [ctl |-> "loop", page |-> pg + 1, all_data |-> acc \o data, msg |-> ""]

\* One iteration of the loop of the lambda script's fetchTransactionData.
lambda_fetchTransactionData(pg, acc, resp, transactions, limit) ==
    IF resp.status = RequestException
    THEN [ctl |-> "raise", page |-> pg, all_data |-> acc, msg |-> "Network error"]
    ELSE IF resp.status # 200
    THEN [ctl |-> "break", page |-> pg, all_data |-> acc, msg |-> ""]
    ELSE IF transactions = <<>>
    THEN [ctl |-> "break", page |-> pg, all_data |-> acc, msg |-> ""]
    ELSE IF Len(transactions) < limit
    THEN [ctl |-> "break", page |-> pg, all_data |-> acc \o transactions, msg |-> ""]
    ELSE [ctl |-> "loop", page |-> pg + 1, all_data |-> acc \o transactions, msg |-> ""]

\* The page a request of the lambda script's fetchTransactionData is for:
\* its params hold limit, from_timestamp and to_timestamp and are never
\* changed, the local `page` is only printed, so every request is the same
\* and the upstream serves its first page.
PageAskedByLambda == 1

FetchInit ==
    /\ records \in 0..MaxUpstream
    /\ page = 1
    /\ all_data = <<>>
    /\ requests = <<>>
    /\ client \in Loops
    /\ pg_pc = "loop"

\* The top of `while True`: requests.get is called.
SendRequest ==
    /\ client \in Loops
    /\ pg_pc = "loop"
    /\ pg_pc' = "sent"
    /\ UNCHANGED <<records, page, all_data, requests, client, notPageVars>>

\* The request of loop c was answered.
Running(c) ==
    /\ client = c
    /\ pg_pc = "sent"

MakePaginatedRequestAnswered ==
    /\ Running("makePaginatedRequest")
    /\ PageAfter(makePaginatedRequest(page, all_data, Ok,
                     PageItems(records, page, PerPage), PerPage), Ok)

FetchTransactionDataAnswered ==
    /\ Running("fetchTransactionData")
    /\ PageAfter(fetchTransactionData(page, all_data, Ok,
                     PageItems(records, page, PerPage), PerPage), Ok)

FetchReceiptDataAnswered ==
    /\ Running("fetchReceiptData")
    /\ PageAfter(fetchReceiptData(page, all_data, Ok,
                     PageItems(records, page, PerPage), PerPage), Ok)

GetAllAnswered ==
    /\ Running("get_all")
    /\ PageAfter(get_all(page, all_data, Ok,
                     PageItems(records, page, PerPage)), Ok)

LambdaFetchTransactionDataAnswered ==
    /\ Running("lambda fetchTransactionData")
    /\ LET r == lambda_fetchTransactionData(page, all_data, Ok,
                    PageItems(records, PageAskedByLambda, PerPage), PerPage)
       IN  /\ IF Len(requests) < MaxRequests
              THEN /\ requests' = Append(requests, [page |-> PageAskedByLambda,
                                                    status |-> Ok.status])
                   /\ page' = r.page
                   /\ all_data' = r.all_data
              ELSE UNCHANGED <<requests, page, all_data>>
           /\ pg_pc' = IF r.ctl = "loop" THEN "loop" ELSE "returned"
    /\ UNCHANGED <<records, client, notPageVars>>

FetchNext ==
    \/ SendRequest
    \/ MakePaginatedRequestAnswered
    \/ FetchTransactionDataAnswered
    \/ FetchReceiptDataAnswered
    \/ GetAllAnswered
    \/ LambdaFetchTransactionDataAnswered

InitFetch ==
    FetchInit /\ LimiterIdle /\ OffchainIdle /\ OnchainIdle /\ LambdaIdle /\ DownstreamIdle

\* The process that runs the loop keeps running it.
SpecFetch == InitFetch /\ [][FetchNext]_vars /\ WF_vars(FetchNext)

\* C27: every paginated fetch loop returns when the upstream holds finitely
\* many records and answers every request with 200.
C27_EveryFetchReturns == <>(pg_pc = "returned")

\* What the claim rests on: no page is asked for twice.  The lambda script's
\* fetchTransactionData asks for the same page every time.
NoPageAskedTwice ==
    \A i, j \in 1..Len(requests) : requests[i].page = requests[j].page => i = j

\* The four loops that put their page counter into the request return.
FetchesThatSendThePageReturn ==
    client # "lambda fetchTransactionData" => <>(pg_pc = "returned")

\* ... and never come near the number of requests the model follows.
PagedFetchesStayBelowMaxRequests ==
    client # "lambda fetchTransactionData" =>
        /\ Len(requests) < MaxRequests
        /\ NoPageAskedTwice

\* The lambda script's fetchTransactionData returns when the first page is
\* short, and otherwise gathers that page again and again.
LambdaFetchRepeatsFirstPage ==
    client = "lambda fetchTransactionData" =>
        /\ records < PerPage => <>(pg_pc = "returned")
        /\ records >= PerPage =>
              [](pg_pc \in {"loop", "sent"}
                    /\ Len(all_data) = PerPage * Len(requests))

\* ---- the in-memory lists (SpecQueue)

Occurrences(list, x) == Cardinality({k \in 1..Len(list) : list[k] = x})

\* Each id is at most once in the queue, at most once in the processing list
\* and not in both, and an id in the queue has a status.
InMemoryListsDisjoint ==
    ~redis =>
        \A id \in EventIds :
            /\ Occurrences(queue, id) + Occurrences(processing, id) <= 1
            /\ Occurrences(queue, id) = 1 => status[id] # "absent"

\* C28: in memory, after any sequence of enqueue_event, dequeue_event and
\* complete_event calls, each id is at most once in the queue, at most once
\* in the processing list and never in both; an id in the queue has status
\* "queued"; an id whose status is "completed" or "failed" is in neither list.
C28_InMemoryListsMatchStatus ==
    ~redis =>
        \A id \in EventIds :
            /\ Occurrences(queue, id) + Occurrences(processing, id) <= 1
            /\ Occurrences(queue, id) = 1 => status[id] = "queued"
            /\ status[id] \in {"completed", "failed"} =>
                  Occurrences(queue, id) + Occurrences(processing, id) = 0

\* complete_event for an id that is still queued leaves it in the queue with
\* status "completed".
CompletedIdStillQueued ==
    /\ ~redis
    /\ last_call.op = "complete"
    /\ \E id \in EventIds :
        /\ status[id] = "completed"
        /\ Occurrences(queue, id) = 1

\* ------------------------------------------------------------ application
\* The webhook route (webhook/routes.py), the processor loop
\* (events/processor.py) and the EventQueue objects they build (main.py,
\* events/queue.py).  With REDIS_ENABLED every EventQueue works on the same
\* Redis lists; without it every EventQueue() has lists of its own.

MaxHooks == 3

NoEvent == <<>>

\* EventQueue.__init__, in memory: self.queue = [], self.processing = [],
\* self.events = {}.  The Redis lists start out the same way.
EventQueue ==
    [queue |-> <<>>, processing |-> <<>>,
     events |-> [id \in EventIds |-> "absent"]]

\* enqueue_event on the lists q.
enqueue_event(q, event_id, with_redis) ==
    [q EXCEPT !.events[event_id] = "queued",
              !.queue = IF with_redis THEN <<event_id>> \o @
                        ELSE Append(@, event_id)]

\* complete_event on the lists q.
complete_event(q, event_id, success, with_redis) ==
    IF with_redis
    THEN [q EXCEPT !.events[event_id] = IF success THEN "completed" ELSE "failed",
                   !.processing = lrem(@, event_id)]
    ELSE [q EXCEPT !.events[event_id] =
                       IF @ = "absent" THEN @
                       ELSE IF success THEN "completed" ELSE "failed",
                   !.processing = remove(@, event_id)]

\* main.py builds event_processor = EventProcessor(), whose __init__ builds
\* its own EventQueue(), and startup_event starts _process_loop.
AppInit ==
    /\ REDIS_ENABLED \in BOOLEAN
    /\ redis_lists = EventQueue
    /\ processor_queue = EventQueue
    /\ webhook_queues = <<>>
    /\ loop_pc = "dequeue"
    /\ loop_event = NoEvent

\* github_webhook for a signed pull_request payload of a merged pull request:
\* `queue = EventQueue()` builds a new object, the event is enqueued on it,
\* and the object is dropped when the request ends.
GithubWebhook ==
    \E number \in 1..MaxEvents :
        /\ loop_pc # "off"
        /\ Len(webhook_queues) < MaxHooks
        /\ IF REDIS_ENABLED
           THEN /\ redis_lists' = enqueue_event(redis_lists, event_id_of(number), TRUE)
                /\ webhook_queues' = Append(webhook_queues, EventQueue)
           ELSE /\ webhook_queues' =
                      Append(webhook_queues,
                             enqueue_event(EventQueue, event_id_of(number), FALSE))
                /\ UNCHANGED redis_lists
        /\ UNCHANGED <<REDIS_ENABLED, processor_queue, loop_pc, loop_event,
                       notAppVars>>

\* _process_loop, lines 49-54: self.queue.dequeue_event(), then either
\* process_event or asyncio.sleep.
LoopDequeue ==
    /\ loop_pc = "dequeue"
    /\ IF REDIS_ENABLED
       THEN /\ \E lost \in 0..Len(redis_lists.queue) :
                LET left == DropLast(redis_lists.queue, lost)
                IN  IF left = <<>>
                    THEN /\ redis_lists' = [redis_lists EXCEPT !.queue = left]
                         /\ loop_pc' = "sleep"
                         /\ loop_event' = NoEvent
                    ELSE /\ redis_lists' =
                              [redis_lists EXCEPT
                                  !.queue = DropLast(left, 1),
                                  !.processing = <<left[Len(left)]>> \o @]
                         /\ loop_pc' = "process"
                         /\ loop_event' = left[Len(left)]
            /\ UNCHANGED processor_queue
       ELSE /\ IF processor_queue.queue = <<>>
               THEN /\ loop_pc' = "sleep"
                    /\ loop_event' = NoEvent
                    /\ UNCHANGED processor_queue
               ELSE LET q == processor_queue.queue
                    IN  /\ processor_queue' =
                              [processor_queue EXCEPT
                                  !.queue = DropLast(q, 1),
                                  !.processing = Append(@, q[Len(q)])]
                        /\ loop_pc' = "process"
                        /\ loop_event' = q[Len(q)]
            /\ UNCHANGED redis_lists
    /\ UNCHANGED <<REDIS_ENABLED, webhook_queues, notAppVars>>

\* process_event for the event handed out: it ends with complete_event, with
\* success True or False; with Redis complete_event itself can raise, the
\* status stays and the loop sleeps before it goes on.
LoopProcessEvent ==
    /\ loop_pc = "process"
    /\ \E success \in BOOLEAN, complete_raises \in {FALSE, REDIS_ENABLED} :
        IF complete_raises
        THEN /\ loop_pc' = "sleep"
             /\ UNCHANGED <<redis_lists, processor_queue>>
        ELSE /\ loop_pc' = "dequeue"
             /\ IF REDIS_ENABLED
                THEN /\ redis_lists' =
                          complete_event(redis_lists, loop_event, success, TRUE)
                     /\ UNCHANGED processor_queue
                ELSE /\ processor_queue' =
                          complete_event(processor_queue, loop_event, success, FALSE)
                     /\ UNCHANGED redis_lists
    /\ loop_event' = NoEvent
    /\ UNCHANGED <<REDIS_ENABLED, webhook_queues, notAppVars>>

\* asyncio.sleep returns and the loop tests self._running again.
LoopWake ==
    /\ loop_pc = "sleep"
    /\ loop_pc' = "dequeue"
    /\ UNCHANGED <<REDIS_ENABLED, redis_lists, processor_queue, webhook_queues,
                   loop_event, notAppVars>>

ProcessLoop == LoopDequeue \/ LoopProcessEvent \/ LoopWake

AppNext ==
    \/ GithubWebhook
    \/ LoopDequeue
    \/ LoopProcessEvent
    \/ LoopWake

InitApp == AppInit /\ EarlierIdle /\ DatesIdle /\ ValidatorIdle

\* The task startup_event created keeps being scheduled.
SpecApp == InitApp /\ [][AppNext]_vars /\ WF_vars(ProcessLoop)

\* ---- claims

\* The status of an event id in the lists q.
EnqueuedOn(q, id) == q.events[id] # "absent"
FinishedOn(q, id) == q.events[id] \in {"completed", "failed"}

EnqueuedByWebhook(id) ==
    \E k \in 1..Len(webhook_queues) : EnqueuedOn(webhook_queues[k], id)

Finished(id) ==
    \/ FinishedOn(processor_queue, id)
    \/ \E k \in 1..Len(webhook_queues) : FinishedOn(webhook_queues[k], id)

\* C29: with Redis disabled, every event github_webhook enqueues for a merged
\* pull request is eventually dequeued and processed by the running loop and
\* ends with status "completed" or "failed".
C29_EnqueuedEventuallyFinished ==
    \A id \in EventIds :
        (~REDIS_ENABLED /\ EnqueuedByWebhook(id)) ~> Finished(id)

\* What happens instead: the loop's own EventQueue never receives an event,
\* and every event stays "queued" on the object the request built.
InMemoryLoopFindsNothing ==
    ~REDIS_ENABLED =>
        /\ processor_queue = EventQueue
        /\ loop_event = NoEvent
        /\ \A id \in EventIds : ~Finished(id)

\* With Redis the lists are shared and every id enqueued leaves the queue.
RedisQueueDrains ==
    \A id \in EventIds :
        (REDIS_ENABLED /\ Occurrences(redis_lists.queue, id) > 0)
            ~> (Occurrences(redis_lists.queue, id) = 0)

\* ---- the range a level states (SpecScore, SpecTier)

\* The minScore and maxScore entries of the level determineLevel returns.
levelRange(name) ==
    CASE name = "Diamond" -> [minScore |-> 85, maxScore |-> 100]
      [] name = "Gold" -> [minScore |-> 70, maxScore |-> 84]
      [] name = "Silver" -> [minScore |-> 55, maxScore |-> 69]
      [] name = "Bronze" -> [minScore |-> 40, maxScore |-> 54]
      [] name = "Contributor" -> [minScore |-> 20, maxScore |-> 39]
      [] name = "Explorer" -> [minScore |-> 1, maxScore |-> 19]
      [] OTHER -> [minScore |-> 0, maxScore |-> 0]

\* s (hundredths) lies within the range the level states.
WithinLevelRange(s, name) ==
    /\ levelRange(name).minScore * 100 <= s
    /\ s <= levelRange(name).maxScore * 100

\* C30: for every combined score calculateTotalRewards passes to
\* determineLevel, whole or not, the level returned states a range that
\* holds the score: minScore <= score <= maxScore.
C30_ScoreWithinLevelRange ==
    sc_pc = "returned" => WithinLevelRange(rewards.total, rewards.level)

\* The same for determineLevel called on any score from 0.00 to 100.00.
AnyScoreWithinLevelRange ==
    level \notin {"none", "off"} => WithinLevelRange(score, level)

\* What holds: the score is at least minScore and below the minScore of the
\* next level, and whole scores are within the range stated.
ScoreBelowNextLevel ==
    level \notin {"none", "off"} =>
        /\ levelRange(level).minScore * 100 <= score
        /\ score < (levelRange(level).maxScore + 1) * 100 \/ score = MaxScore * 100
        /\ score % 100 = 0 => WithinLevelRange(score, level)

\* A combined score strictly between 84 and 85 is Gold, whose maxScore is 84.
ScoreBetweenLevels ==
    /\ sc_pc = "returned"
    /\ rewards.level = "Gold"
    /\ rewards.total > 84 * 100

====
